---- MODULE Spec2Model ----
(***************************************************************************)
(* Model of timeslotassigner: the single-resource interval store           *)
(* (CalendarBase, src/timeslotassigner/calendar.py).                       *)
(*                                                                         *)
(* The store is a SortedDict  start -> (end, data).  It is modelled as the *)
(* sequence of its items  <<start, <<end, data>>>>  in key order, with the *)
(* SortedDict operations the code uses (bisect_left, bisect_right,         *)
(* peekitem, item assignment, del) as operators on that sequence.          *)
(* Every public method is an operator from the store and the arguments to  *)
(* the outcome (raised, returned value, store afterwards) and one action   *)
(* that applies it.  The library is single-threaded and synchronous: the   *)
(* caller makes a call, holds its outcome (variable last, with the store   *)
(* before the call), and goes on to the next call.                         *)
(***************************************************************************)
EXTENDS Integers, Sequences, FiniteSets, TLC

\* ------------------------------------------------------------------ bounds
\* Callers pass times in 0..MaxTime; a shifted interval may end later, up to
\* Horizon (calls whose shifted result would end after Horizon are not taken).
MaxTime == 4
Horizon == MaxTime + 2
Times == 0..MaxTime
StoredTimes == 0..Horizon
Data == {"a", "b"}

\* The manager layer: at most MaxSlots intervals are held by the Calendars of
\* the manager at a time and a bulk call takes at most MaxBulk assignments
\* (calls that would go beyond are not taken).  Calendar keys, resource ids,
\* requested ranges and query times come from these sets.
MaxSlots == 2
MaxBulk == 2
Resources == {"r1", "r2"}
MgrRequests == {<<0, 1>>, <<1, 2>>, <<1, 1>>, <<2, 1>>}
MgrTimes == {0, 1}

\* The datetime layer: wall clocks read 1..MaxSecond seconds, on the second or
\* half a second after it, in a timezone whose offset from UTC is one of
\* Offsets (seconds), or with no timezone.  A shifted interval ends by
\* DtHorizon (calls whose shifted result would end later are not taken).
MaxSecond == 1
Offsets == {-1, 0, 1}
DtHorizon == MaxSecond + 3

\* Python's None (a missing slot); a found slot is a triple <<start, end, data>>.
None == <<>>

VARIABLES
    slots,   \* CalendarBase._slots: the items of the SortedDict, in key order
    last,    \* the call the caller holds the outcome of: operation, arguments,
             \* outcome, store before it; Idle between calls
    mgr,     \* a CalendarManager: its dict _calendars and the Calendar objects
    mlast,   \* the call on the manager (or on one of its Calendars) the caller
             \* holds the outcome of, with the manager before it
    default_timezone
             \* DatetimeCalendarBase.default_timezone: the offset from UTC, in
             \* seconds, applied to naive datetimes (UTC where the store is a
             \* plain CalendarBase)

vars == <<slots, last, mgr, mlast, default_timezone>>

\* The variables of the manager layer and of the datetime layer.
mvars == <<mgr, mlast, default_timezone>>

\* The variables of the store layer and of the datetime layer.
svars == <<slots, last, default_timezone>>

\* timezone.utc: offset 0.
UTC == 0

\* ------------------------------------------------------- SortedDict helpers
\* The keys of the store.
KeySet(s) == {s[i][1] : i \in 1..Len(s)}

\* SortedDict.bisect_left(x): the index (0-based) of the first key >= x.
bisect_left(s, x) == Cardinality({i \in 1..Len(s) : s[i][1] < x})

\* SortedDict.bisect_right(x): the index (0-based) of the first key > x.
bisect_right(s, x) == Cardinality({i \in 1..Len(s) : s[i][1] <= x})

\* SortedDict.peekitem(idx): the item at 0-based position idx.
peekitem(s, idx) == s[idx + 1]

\* Variant of the item assignment for a mapping that keeps insertion order (a
\* plain dict in place of the SortedDict of line 22): a new key goes last.
setitem_append(s, k, v) ==
    IF k \in KeySet(s)
    THEN [i \in 1..Len(s) |-> IF s[i][1] = k THEN <<k, v>> ELSE s[i]]
    ELSE Append(s, <<k, v>>)

\* self._slots[k] = v : replace the value of an existing key, else insert the
\* item at its place in key order.
setitem(s, k, v) ==
    IF k \in KeySet(s)
    THEN [i \in 1..Len(s) |-> IF s[i][1] = k THEN <<k, v>> ELSE s[i]]
    ELSE LET n == bisect_left(s, k)
         IN  SubSeq(s, 1, n) \o <<<<k, v>>>> \o SubSeq(s, n + 1, Len(s))

\* del self._slots[k], for a key that is present.
delitem(s, k) ==
    LET n == bisect_left(s, k)
    IN  SubSeq(s, 1, n) \o SubSeq(s, n + 2, Len(s))

\* --------------------------------------------------------------- the store
\* Variant of _has_conflict that forgets the interval before the insertion
\* point (lines 181-184 left out).
has_conflict_next_only(s, start, end) ==
    LET idx == bisect_left(s, start)
    IN  /\ idx < Len(s)
        /\ peekitem(s, idx)[1] < end

\* Variant of _has_conflict that takes an interval ending exactly at start for
\* a conflict (prev_end >= start at line 183).
has_conflict_touch(s, start, end) ==
    LET idx == bisect_left(s, start)
    IN  \/ /\ idx > 0
           /\ peekitem(s, idx - 1)[2][1] >= start
        \/ /\ idx < Len(s)
           /\ peekitem(s, idx)[1] < end

\* CalendarBase._has_conflict
has_conflict(s, start, end) ==
    LET idx == bisect_left(s, start)
    IN  \/ /\ idx > 0
           /\ peekitem(s, idx - 1)[2][1] > start
        \/ /\ idx < Len(s)
           /\ peekitem(s, idx)[1] < end

\* Variant of the loop body that moves the candidate past the next interval by
\* the whole duration (current_time = next_end + duration at line 214).
find_step_far(s, current_time, duration) ==
    IF ~has_conflict(s, current_time, current_time + duration)
    THEN [done |-> TRUE, time |-> current_time, branch |-> "free"]
    ELSE LET idx == bisect_right(s, current_time) - 1
         IN  IF idx >= 0 /\ peekitem(s, idx)[2][1] > current_time
             THEN [done |-> FALSE, time |-> peekitem(s, idx)[2][1],
                   branch |-> "prev"]
             ELSE LET idx2 == bisect_left(s, current_time)
                  IN  IF idx2 < Len(s)
                      THEN [done |-> FALSE,
                            time |-> peekitem(s, idx2)[2][1] + duration,
                            branch |-> "next"]
                      ELSE [done |-> TRUE, time |-> current_time,
                            branch |-> "fallback"]

\* Variant of the loop body that looks for the next interval from the end of
\* the request on (bisect_left(current_time + duration) at line 211).
find_step_after(s, current_time, duration) ==
    IF ~has_conflict(s, current_time, current_time + duration)
    THEN [done |-> TRUE, time |-> current_time, branch |-> "free"]
    ELSE LET idx == bisect_right(s, current_time) - 1
         IN  IF idx >= 0 /\ peekitem(s, idx)[2][1] > current_time
             THEN [done |-> FALSE, time |-> peekitem(s, idx)[2][1],
                   branch |-> "prev"]
             ELSE LET idx2 == bisect_left(s, current_time + duration)
                  IN  IF idx2 < Len(s)
                      THEN [done |-> FALSE, time |-> peekitem(s, idx2)[2][1],
                            branch |-> "next"]
                      ELSE [done |-> TRUE, time |-> current_time,
                            branch |-> "fallback"]

\* Variant of the loop body that leaves a gap of one after the interval that
\* covers the candidate (current_time = end + 1 at line 207).
find_step_gap(s, current_time, duration) ==
    IF ~has_conflict(s, current_time, current_time + duration)
    THEN [done |-> TRUE, time |-> current_time, branch |-> "free"]
    ELSE LET idx == bisect_right(s, current_time) - 1
         IN  IF idx >= 0 /\ peekitem(s, idx)[2][1] > current_time
             THEN [done |-> FALSE, time |-> peekitem(s, idx)[2][1] + 1,
                   branch |-> "prev"]
             ELSE LET idx2 == bisect_left(s, current_time)
                  IN  IF idx2 < Len(s)
                      THEN [done |-> FALSE, time |-> peekitem(s, idx2)[2][1],
                            branch |-> "next"]
                      ELSE [done |-> TRUE, time |-> current_time,
                            branch |-> "fallback"]

\* Variant of the loop body that moves the candidate to the start of the next
\* interval instead of its end and keeps it when an interval covers it
\* (lines 207 and 214 without the advance).
find_step_stuck(s, current_time, duration) ==
    IF ~has_conflict(s, current_time, current_time + duration)
    THEN [done |-> TRUE, time |-> current_time, branch |-> "free"]
    ELSE LET idx == bisect_right(s, current_time) - 1
         IN  IF idx >= 0 /\ peekitem(s, idx)[2][1] > current_time
             THEN [done |-> FALSE, time |-> current_time, branch |-> "prev"]
             ELSE LET idx2 == bisect_left(s, current_time)
                  IN  IF idx2 < Len(s)
                      THEN [done |-> FALSE, time |-> peekitem(s, idx2)[1],
                            branch |-> "next"]
                      ELSE [done |-> TRUE, time |-> current_time,
                            branch |-> "fallback"]

\* One iteration of the loop of CalendarBase._find_available_slot at candidate
\* current_time: either the loop returns (done) or it continues at time.
find_step(s, current_time, duration) ==
    IF ~has_conflict(s, current_time, current_time + duration)
    THEN [done |-> TRUE, time |-> current_time, branch |-> "free"]
    ELSE LET idx == bisect_right(s, current_time) - 1
         IN  IF idx >= 0 /\ peekitem(s, idx)[2][1] > current_time
             THEN [done |-> FALSE, time |-> peekitem(s, idx)[2][1],
                   branch |-> "prev"]
             ELSE LET idx2 == bisect_left(s, current_time)
                  IN  IF idx2 < Len(s)
                      THEN [done |-> FALSE, time |-> peekitem(s, idx2)[2][1],
                            branch |-> "next"]
                      ELSE [done |-> TRUE, time |-> current_time,
                            branch |-> "fallback"]

\* Variant of _find_available_slot with an if in place of the while: the
\* candidate is moved once and returned without another conflict check.
find_from_once(s, current_time, duration) ==
    find_step(s, current_time, duration).time

\* CalendarBase._find_available_slot: the loop, run to its return.
RECURSIVE find_from(_, _, _)
find_from(s, current_time, duration) ==
    LET r == find_step(s, current_time, duration)
    IN  IF r.done THEN r.time ELSE find_from(s, r.time, duration)

\* A search that, once the preferred start is taken, looks on from one past
\* the first free start.
find_available_slot_gap(s, preferred_start, duration) ==
    LET t == find_from(s, preferred_start, duration)
    IN  IF t = preferred_start THEN t ELSE find_from(s, t + 1, duration)

find_available_slot(s, preferred_start, duration) ==
    find_from(s, preferred_start, duration)

\* Variant of get_slot_at with a closed interval (start <= time <= end at
\* line 133).
get_slot_at_closed(s, time) ==
    LET idx == bisect_right(s, time) - 1
    IN  IF idx >= 0 /\ peekitem(s, idx)[1] <= time
                    /\ time <= peekitem(s, idx)[2][1]
        THEN <<peekitem(s, idx)[1], peekitem(s, idx)[2][1], peekitem(s, idx)[2][2]>>
        ELSE None

\* CalendarBase.get_slot_at
get_slot_at(s, time) ==
    LET idx == bisect_right(s, time) - 1
    IN  IF idx >= 0 /\ peekitem(s, idx)[1] <= time
                    /\ time < peekitem(s, idx)[2][1]
        THEN <<peekitem(s, idx)[1], peekitem(s, idx)[2][1], peekitem(s, idx)[2][2]>>
        ELSE None

\* CalendarBase.get_all_slots
get_all_slots(s) == [i \in 1..Len(s) |-> <<s[i][1], s[i][2][1], s[i][2][2]>>]

\* Variant of left_slot that searches with bisect_right (line 154), so an
\* interval that starts at the query is returned.
left_slot_inclusive(s, start) ==
    LET idx == bisect_right(s, start) - 1
    IN  IF idx >= 0
        THEN <<peekitem(s, idx)[1], peekitem(s, idx)[2][1], peekitem(s, idx)[2][2]>>
        ELSE None

\* CalendarBase.left_slot
left_slot(s, start) ==
    LET idx == bisect_left(s, start) - 1
    IN  IF idx >= 0
        THEN <<peekitem(s, idx)[1], peekitem(s, idx)[2][1], peekitem(s, idx)[2][2]>>
        ELSE None

\* Variant of right_slot that searches with bisect_left (line 169), so an
\* interval that starts at the query is returned.
right_slot_inclusive(s, start) ==
    LET idx == bisect_left(s, start)
    IN  IF idx < Len(s)
        THEN <<peekitem(s, idx)[1], peekitem(s, idx)[2][1], peekitem(s, idx)[2][2]>>
        ELSE None

\* CalendarBase.right_slot
right_slot(s, start) ==
    LET idx == bisect_right(s, start)
    IN  IF idx < Len(s)
        THEN <<peekitem(s, idx)[1], peekitem(s, idx)[2][1], peekitem(s, idx)[2][2]>>
        ELSE None

\* ------------------------------------------------------------ the methods
\* The outcome of a call: raised (ValueError), the returned value, the store
\* afterwards.
Outcome(raised, ret, s) == [raised |-> raised, ret |-> ret, slots |-> s]

\* Variant of add_slot that stores the interval before it checks for a
\* conflict (line 50 moved above line 47).
add_slot_store_first(s, start, end, data) ==
    IF start >= end
    THEN Outcome(TRUE, None, s)
    ELSE IF has_conflict(s, start, end)
    THEN Outcome(FALSE, FALSE, setitem(s, start, <<end, data>>))
    ELSE Outcome(FALSE, TRUE, setitem(s, start, <<end, data>>))

\* Variant of add_slot without the validation of the range (lines 45-46).
add_slot_unchecked(s, start, end, data) ==
    IF has_conflict(s, start, end)
    THEN Outcome(FALSE, FALSE, s)
    ELSE Outcome(FALSE, TRUE, setitem(s, start, <<end, data>>))

\* CalendarBase.add_slot
add_slot(s, start, end, data) ==
    IF start >= end
    THEN Outcome(TRUE, None, s)
    ELSE IF has_conflict(s, start, end)
    THEN Outcome(FALSE, FALSE, s)
    ELSE Outcome(FALSE, TRUE, setitem(s, start, <<end, data>>))

\* Variant of add_slot_with_shift that rejects only start > end (line 76).
add_slot_with_shift_gt(s, start, end, data) ==
    IF start > end
    THEN Outcome(TRUE, None, s)
    ELSE LET duration == end - start
             actual_start == find_available_slot(s, start, duration)
             actual_end == actual_start + duration
         IN  Outcome(FALSE, <<actual_start, actual_end>>,
                     setitem(s, actual_start, <<actual_end, data>>))

\* CalendarBase.add_slot_with_shift
add_slot_with_shift(s, start, end, data) ==
    IF start >= end
    THEN Outcome(TRUE, None, s)
    ELSE LET duration == end - start
             actual_start == find_available_slot(s, start, duration)
             actual_end == actual_start + duration
         IN  Outcome(FALSE, <<actual_start, actual_end>>,
                     setitem(s, actual_start, <<actual_end, data>>))

\* Variant of remove_slot that removes the interval covering the given time
\* instead of the one starting at it.
remove_slot_covering(s, start) ==
    IF get_slot_at(s, start) # None
    THEN Outcome(FALSE, TRUE, delitem(s, get_slot_at(s, start)[1]))
    ELSE Outcome(FALSE, FALSE, s)

\* CalendarBase.remove_slot: del raises KeyError for a missing key, which the
\* method turns into False.
remove_slot(s, start) ==
    IF start \in KeySet(s)
    THEN Outcome(FALSE, TRUE, delitem(s, start))
    ELSE Outcome(FALSE, FALSE, s)

\* ---------------------------------------------------------- Python dicts
\* A dict (Calendar._calendars, CalendarManager._calendars) is the sequence of
\* its items <<key, value>> in insertion order.
dict_keys(d) == [i \in 1..Len(d) |-> d[i][1]]

dict_has(d, k) == \E i \in 1..Len(d) : d[i][1] = k

\* d[k], for a key that is present.
dict_get(d, k) == d[CHOOSE i \in 1..Len(d) : d[i][1] = k][2]

\* d[k] = v : an existing key keeps its place, a new key goes last.
dict_set(d, k, v) ==
    IF dict_has(d, k)
    THEN [i \in 1..Len(d) |-> IF d[i][1] = k THEN <<k, v>> ELSE d[i]]
    ELSE Append(d, <<k, v>>)

\* del d[k], for a key that is present.
dict_del(d, k) == SelectSeq(d, LAMBDA item : item[1] # k)

\* ---------------------------------------------------------------- Calendar
\* A Calendar is its dict _calendars: resource_id -> store of the resource's
\* CalendarBase.  The outcome of a Calendar method: raised, returned value,
\* the Calendar afterwards.
CalOutcome(raised, ret, g) == [raised |-> raised, ret |-> ret, group |-> g]

\* Calendar.__init__(resources)
RECURSIVE cal_init_from(_, _, _)
cal_init_from(g, resources, i) ==
    IF i > Len(resources) THEN g
    ELSE cal_init_from(dict_set(g, resources[i], <<>>), resources, i + 1)

cal_init(resources) == cal_init_from(<<>>, resources, 1)

\* Calendar.add_resource
cal_add_resource(g, resource_id) ==
    IF ~dict_has(g, resource_id) THEN dict_set(g, resource_id, <<>>) ELSE g

\* Calendar.remove_resource
cal_remove_resource(g, resource_id) ==
    IF dict_has(g, resource_id)
    THEN CalOutcome(FALSE, TRUE, dict_del(g, resource_id))
    ELSE CalOutcome(FALSE, FALSE, g)

\* Calendar.get_calendar: the CalendarBase (resource_id and store) or None.
cal_get_calendar(g, resource_id) ==
    IF dict_has(g, resource_id)
    THEN <<resource_id, dict_get(g, resource_id)>>
    ELSE None

\* A Calendar.add_slot that looks for a conflict in the stores of all the
\* resources.
cal_add_slot_any(g, resource_id, start, end, data) ==
    LET g1 == IF ~dict_has(g, resource_id)
              THEN dict_set(g, resource_id, <<>>) ELSE g
        r == add_slot(dict_get(g1, resource_id), start, end, data)
    IN  IF start < end /\ \E i \in 1..Len(g1) : has_conflict(g1[i][2], start, end)
        THEN CalOutcome(FALSE, FALSE, g1)
        ELSE CalOutcome(r.raised, r.ret, dict_set(g1, resource_id, r.slots))

\* Calendar.add_slot
cal_add_slot(g, resource_id, start, end, data) ==
    LET g1 == IF ~dict_has(g, resource_id)
              THEN cal_add_resource(g, resource_id) ELSE g
        r == add_slot(dict_get(g1, resource_id), start, end, data)
    IN  CalOutcome(r.raised, r.ret, dict_set(g1, resource_id, r.slots))

\* A Calendar.add_slot_with_shift that validates the range before it creates
\* the resource.
cal_add_slot_with_shift_checked(g, resource_id, start, end, data) ==
    IF start >= end THEN CalOutcome(TRUE, None, g)
    ELSE LET g1 == IF ~dict_has(g, resource_id)
                   THEN dict_set(g, resource_id, <<>>) ELSE g
             r == add_slot_with_shift(dict_get(g1, resource_id), start, end, data)
         IN  CalOutcome(r.raised, r.ret, dict_set(g1, resource_id, r.slots))

\* Calendar.add_slot_with_shift
cal_add_slot_with_shift(g, resource_id, start, end, data) ==
    LET g1 == IF ~dict_has(g, resource_id)
              THEN cal_add_resource(g, resource_id) ELSE g
        r == add_slot_with_shift(dict_get(g1, resource_id), start, end, data)
    IN  CalOutcome(r.raised, r.ret, dict_set(g1, resource_id, r.slots))

\* A loop over the resources that puts each hit before the ones found so far.
RECURSIVE cal_get_slots_from_front(_, _, _, _)
cal_get_slots_from_front(g, time, i, result) ==
    IF i > Len(g) THEN result
    ELSE LET slot == get_slot_at(g[i][2], time)
         IN  cal_get_slots_from_front(g, time, i + 1,
                 IF slot # None
                 THEN <<<<g[i][1], slot[1], slot[2], slot[3]>>>> \o result
                 ELSE result)

\* Calendar.get_slots_at: the loop over the resources, from item i on.
RECURSIVE cal_get_slots_from(_, _, _, _)
cal_get_slots_from(g, time, i, result) ==
    IF i > Len(g) THEN result
    ELSE LET slot == get_slot_at(g[i][2], time)
         IN  cal_get_slots_from(g, time, i + 1,
                 IF slot # None
                 THEN Append(result, <<g[i][1], slot[1], slot[2], slot[3]>>)
                 ELSE result)

cal_get_slots_at(g, time) == cal_get_slots_from(g, time, 1, <<>>)

\* Calendar.get_all_resources
cal_get_all_resources(g) == dict_keys(g)

\* --------------------------------------------------------- CalendarManager
\* The Calendar objects live in objs; a reference to a Calendar is its index
\* there, NoRef is None.  The manager's dict _calendars maps a key to a
\* reference.  Python's None used as a calendar key is NoneKey.
NoRef == 0
NoneKey == "None"

EmptyManager == [cals |-> <<>>, objs |-> <<>>]

\* The Calendar under a key that is present.
mgr_calendar(m, key) == m.objs[dict_get(m.cals, key)]

\* The outcome of a manager method: raised, returned value, manager afterwards.
MgrOutcome(raised, ret, m) == [raised |-> raised, ret |-> ret, mgr |-> m]

\* An add_calendar that stores a copy of the Calendar it is given.
mgr_add_calendar_copy(m, key, calendar) ==
    [cals |-> dict_set(m.cals, key, Len(m.objs) + 1),
     objs |-> Append(m.objs, IF calendar = NoRef THEN cal_init(<<>>)
                             ELSE m.objs[calendar])]

\* An add_calendar that leaves a key that is present bound as it was.
mgr_add_calendar_keep(m, key, calendar) ==
    IF dict_has(m.cals, key) THEN m
    ELSE IF calendar = NoRef
         THEN [cals |-> dict_set(m.cals, key, Len(m.objs) + 1),
               objs |-> Append(m.objs, cal_init(<<>>))]
         ELSE [cals |-> dict_set(m.cals, key, calendar), objs |-> m.objs]

\* CalendarManager.add_calendar: calendar is a reference or NoRef.
mgr_add_calendar(m, key, calendar) ==
    IF calendar = NoRef
    THEN [cals |-> dict_set(m.cals, key, Len(m.objs) + 1),
          objs |-> Append(m.objs, cal_init(<<>>))]
    ELSE [cals |-> dict_set(m.cals, key, calendar), objs |-> m.objs]

\* A remove_calendar that deletes without looking: KeyError for a missing key.
mgr_remove_calendar_raising(m, key) ==
    IF dict_has(m.cals, key)
    THEN MgrOutcome(FALSE, TRUE, [m EXCEPT !.cals = dict_del(m.cals, key)])
    ELSE MgrOutcome(TRUE, None, m)

\* CalendarManager.remove_calendar
mgr_remove_calendar(m, key) ==
    IF dict_has(m.cals, key)
    THEN MgrOutcome(FALSE, TRUE, [m EXCEPT !.cals = dict_del(m.cals, key)])
    ELSE MgrOutcome(FALSE, FALSE, m)

\* CalendarManager.get_calendar: a reference or NoRef.
mgr_get_calendar(m, key) ==
    IF dict_has(m.cals, key) THEN dict_get(m.cals, key) ELSE NoRef

\* CalendarManager.get_all_calendar_keys
mgr_get_all_calendar_keys(m) == dict_keys(m.cals)

\* An add_slot that binds the key to a new Calendar on every call.
mgr_add_slot_reset(m, calendar_key, resource_id, start, end, data) ==
    LET m1 == mgr_add_calendar(m, calendar_key, NoRef)
        ref == dict_get(m1.cals, calendar_key)
        r == cal_add_slot(m1.objs[ref], resource_id, start, end, data)
    IN  MgrOutcome(r.raised, r.ret, [m1 EXCEPT !.objs[ref] = r.group])

\* CalendarManager.add_slot
mgr_add_slot(m, calendar_key, resource_id, start, end, data) ==
    LET m1 == IF ~dict_has(m.cals, calendar_key)
              THEN mgr_add_calendar(m, calendar_key, NoRef) ELSE m
        ref == dict_get(m1.cals, calendar_key)
        r == cal_add_slot(m1.objs[ref], resource_id, start, end, data)
    IN  MgrOutcome(r.raised, r.ret, [m1 EXCEPT !.objs[ref] = r.group])

\* CalendarManager.add_slot_with_shift
mgr_add_slot_with_shift(m, calendar_key, resource_id, start, end, data) ==
    LET m1 == IF ~dict_has(m.cals, calendar_key)
              THEN mgr_add_calendar(m, calendar_key, NoRef) ELSE m
        ref == dict_get(m1.cals, calendar_key)
        r == cal_add_slot_with_shift(m1.objs[ref], resource_id, start, end, data)
    IN  MgrOutcome(r.raised, r.ret, [m1 EXCEPT !.objs[ref] = r.group])

\* A loop over the calendars that enters every calendar, hits or not.
RECURSIVE mgr_get_slots_from_all(_, _, _, _)
mgr_get_slots_from_all(m, time, i, result) ==
    IF i > Len(m.cals) THEN result
    ELSE mgr_get_slots_from_all(m, time, i + 1,
             dict_set(result, m.cals[i][1],
                      cal_get_slots_at(m.objs[m.cals[i][2]], time)))

\* CalendarManager.get_slots_at without a key: the loop over the calendars.
RECURSIVE mgr_get_slots_from(_, _, _, _)
mgr_get_slots_from(m, time, i, result) ==
    IF i > Len(m.cals) THEN result
    ELSE LET slots_i == cal_get_slots_at(m.objs[m.cals[i][2]], time)
         IN  mgr_get_slots_from(m, time, i + 1,
                 IF slots_i # <<>>
                 THEN dict_set(result, m.cals[i][1], slots_i)
                 ELSE result)

\* A get_slots_at that takes None for a key whenever a calendar is registered
\* under None.
mgr_get_slots_at_by_key(m, time, calendar_key) ==
    IF calendar_key # NoneKey \/ dict_has(m.cals, calendar_key)
    THEN IF dict_has(m.cals, calendar_key)
         THEN LET slots_k == cal_get_slots_at(mgr_calendar(m, calendar_key), time)
              IN  IF slots_k # <<>>
                  THEN dict_set(<<>>, calendar_key, slots_k)
                  ELSE <<>>
         ELSE <<>>
    ELSE mgr_get_slots_from(m, time, 1, <<>>)

\* CalendarManager.get_slots_at: the returned dict key -> list of
\* (resource_id, start, end, data).
mgr_get_slots_at(m, time, calendar_key) ==
    IF calendar_key # NoneKey
    THEN IF dict_has(m.cals, calendar_key)
         THEN LET slots_k == cal_get_slots_at(mgr_calendar(m, calendar_key), time)
              IN  IF slots_k # <<>>
                  THEN dict_set(<<>>, calendar_key, slots_k)
                  ELSE <<>>
         ELSE <<>>
    ELSE mgr_get_slots_from(m, time, 1, <<>>)

\* CalendarManager.get_all_slots_at: the two nested loops.
RECURSIVE flatten_slots(_, _, _, _)
flatten_slots(by_calendar, i, j, result) ==
    IF i > Len(by_calendar) THEN result
    ELSE IF j > Len(by_calendar[i][2])
    THEN flatten_slots(by_calendar, i + 1, 1, result)
    ELSE flatten_slots(by_calendar, i, j + 1,
             Append(result, <<by_calendar[i][1]>> \o by_calendar[i][2][j]))

mgr_get_all_slots_at(m, time) ==
    flatten_slots(mgr_get_slots_at(m, time, NoneKey), 1, 1, <<>>)

\* CalendarManager.add_resource_to_calendar
mgr_add_resource_to_calendar(m, calendar_key, resource_id) ==
    LET m1 == IF ~dict_has(m.cals, calendar_key)
              THEN mgr_add_calendar(m, calendar_key, NoRef) ELSE m
        ref == dict_get(m1.cals, calendar_key)
    IN  [m1 EXCEPT !.objs[ref] = cal_add_resource(m1.objs[ref], resource_id)]

\* CalendarManager.get_calendar_resources
mgr_get_calendar_resources(m, calendar_key) ==
    IF mgr_get_calendar(m, calendar_key) # NoRef
    THEN cal_get_all_resources(mgr_calendar(m, calendar_key))
    ELSE <<>>

\* CalendarManager.get_all_resources: the dict key -> list of resource ids.
mgr_get_all_resources(m) ==
    [i \in 1..Len(m.cals) |->
        <<m.cals[i][1], cal_get_all_resources(m.objs[m.cals[i][2]])>>]

\* A bulk loop that gives up at the first rejected item.
RECURSIVE bulk_assign_from_stop(_, _, _, _)
bulk_assign_from_stop(m, assignments, i, results) ==
    IF i > Len(assignments) THEN MgrOutcome(FALSE, results, m)
    ELSE LET a == assignments[i]
             r == mgr_add_slot(m, a[1], a[2], a[3], a[4], a[5])
         IN  IF r.raised THEN MgrOutcome(TRUE, None, r.mgr)
             ELSE IF r.ret = FALSE
                  THEN MgrOutcome(FALSE, Append(results, r.ret), r.mgr)
                  ELSE bulk_assign_from_stop(r.mgr, assignments, i + 1,
                                             Append(results, r.ret))

\* CalendarManager.bulk_assign_slots: the loop from item i on; an exception of
\* add_slot leaves the loop and the method.
RECURSIVE bulk_assign_from(_, _, _, _)
bulk_assign_from(m, assignments, i, results) ==
    IF i > Len(assignments) THEN MgrOutcome(FALSE, results, m)
    ELSE LET a == assignments[i]
             r == mgr_add_slot(m, a[1], a[2], a[3], a[4], a[5])
         IN  IF r.raised THEN MgrOutcome(TRUE, None, r.mgr)
             ELSE bulk_assign_from(r.mgr, assignments, i + 1,
                                   Append(results, r.ret))

bulk_assign_slots(m, assignments) == bulk_assign_from(m, assignments, 1, <<>>)

\* A bulk loop that records None for an item that raises and goes on.
RECURSIVE bulk_shift_from_skip(_, _, _, _)
bulk_shift_from_skip(m, assignments, i, results) ==
    IF i > Len(assignments) THEN MgrOutcome(FALSE, results, m)
    ELSE LET a == assignments[i]
             r == mgr_add_slot_with_shift(m, a[1], a[2], a[3], a[4], a[5])
         IN  bulk_shift_from_skip(r.mgr, assignments, i + 1,
                                  Append(results, r.ret))

\* CalendarManager.bulk_assign_slots_with_shift
RECURSIVE bulk_shift_from(_, _, _, _)
bulk_shift_from(m, assignments, i, results) ==
    IF i > Len(assignments) THEN MgrOutcome(FALSE, results, m)
    ELSE LET a == assignments[i]
             r == mgr_add_slot_with_shift(m, a[1], a[2], a[3], a[4], a[5])
         IN  IF r.raised THEN MgrOutcome(TRUE, None, r.mgr)
             ELSE bulk_shift_from(r.mgr, assignments, i + 1,
                                  Append(results, r.ret))

bulk_assign_slots_with_shift(m, assignments) ==
    bulk_shift_from(m, assignments, 1, <<>>)

\* The Calendar objects a key refers to, in the order of the keys, each once.
RECURSIVE first_refs(_, _, _)
first_refs(cals, i, acc) ==
    IF i > Len(cals) THEN acc
    ELSE first_refs(cals, i + 1,
             IF \E j \in 1..Len(acc) : acc[j] = cals[i][2] THEN acc
             ELSE Append(acc, cals[i][2]))

\* Python frees a Calendar no key refers to; the references are renumbered in
\* the order of the keys (which object carries which number has no meaning).
Collect(m) ==
    LET refs == first_refs(m.cals, 1, <<>>)
        pos(r) == CHOOSE j \in 1..Len(refs) : refs[j] = r
    IN  [cals |-> [i \in 1..Len(m.cals) |-> <<m.cals[i][1], pos(m.cals[i][2])>>],
         objs |-> [j \in 1..Len(refs) |-> m.objs[refs[j]]]]

\* The caller of the manager between two calls.
MgrIdle == [op |-> "idle", key |-> "", resource |-> "", start |-> 0, end |-> 0,
            arg |-> <<>>, raised |-> FALSE, ret |-> None, pre |-> EmptyManager]

\* ----------------------------------------------------------------- actions
\* The caller between two calls.
Idle == [op |-> "idle", start |-> 0, end |-> 0, data |-> "a",
         raised |-> FALSE, ret |-> None, pre |-> <<>>]

\* The caller after a call: what it called and what came back.
Call(op, a, b, d, r) ==
    [op |-> op, start |-> a, end |-> b, data |-> d,
     raised |-> r.raised, ret |-> r.ret, pre |-> slots]

\* CalendarBase.__init__
Init ==
    /\ slots = <<>>
    /\ last = Idle
    /\ mgr = EmptyManager
    /\ mlast = MgrIdle
    /\ default_timezone = UTC

\* A call of CalendarBase.add_slot(start, end, data)
AddSlot ==
    /\ last.op = "idle"
    /\ UNCHANGED mvars
    /\ \E start \in Times, end \in Times, data \in Data :
        LET r == add_slot(slots, start, end, data)
        IN  /\ slots' = r.slots
            /\ last' = Call("add_slot", start, end, data, r)

\* A call of CalendarBase.add_slot_with_shift(start, end, data); calls whose
\* shifted interval would end after Horizon are left out.
AddSlotWithShift ==
    /\ last.op = "idle"
    /\ UNCHANGED mvars
    /\ \E start \in Times, end \in Times, data \in Data :
        LET r == add_slot_with_shift(slots, start, end, data)
        IN  /\ IF r.raised THEN TRUE ELSE r.ret[2] <= Horizon
            /\ slots' = r.slots
            /\ last' = Call("add_slot_with_shift", start, end, data, r)

\* A call of CalendarBase.remove_slot(start)
RemoveSlot ==
    /\ last.op = "idle"
    /\ UNCHANGED mvars
    /\ \E start \in StoredTimes :
        LET r == remove_slot(slots, start)
        IN  /\ slots' = r.slots
            /\ last' = Call("remove_slot", start, start, "a", r)

\* A call of CalendarBase.get_slot_at(time)
GetSlotAt ==
    /\ last.op = "idle"
    /\ UNCHANGED mvars
    /\ \E time \in StoredTimes :
        /\ last' = Call("get_slot_at", time, time, "a",
                        Outcome(FALSE, get_slot_at(slots, time), slots))
        /\ UNCHANGED slots

\* A call of CalendarBase.get_all_slots()
GetAllSlots ==
    /\ last.op = "idle"
    /\ UNCHANGED mvars
    /\ last' = Call("get_all_slots", 0, 0, "a",
                    Outcome(FALSE, get_all_slots(slots), slots))
    /\ UNCHANGED slots

\* A call of CalendarBase.left_slot(start)
LeftSlot ==
    /\ last.op = "idle"
    /\ UNCHANGED mvars
    /\ \E start \in StoredTimes :
        /\ last' = Call("left_slot", start, start, "a",
                        Outcome(FALSE, left_slot(slots, start), slots))
        /\ UNCHANGED slots

\* A call of CalendarBase.right_slot(start)
RightSlot ==
    /\ last.op = "idle"
    /\ UNCHANGED mvars
    /\ \E start \in StoredTimes :
        /\ last' = Call("right_slot", start, start, "a",
                        Outcome(FALSE, right_slot(slots, start), slots))
        /\ UNCHANGED slots

\* The caller is done with the outcome of its call and is ready for the next.
Return ==
    /\ last.op # "idle"
    /\ UNCHANGED mvars
    /\ last' = Idle
    /\ UNCHANGED slots

Next ==
    \/ AddSlot
    \/ AddSlotWithShift
    \/ RemoveSlot
    \/ GetSlotAt
    \/ GetAllSlots
    \/ LeftSlot
    \/ RightSlot
    \/ Return

Spec == Init /\ [][Next]_vars

\* ------------------------------------------------- actions of the manager
\* The calendar keys of the calls: a string and Python's None.
CalendarKeys == {"k1", NoneKey}

\* A Calendar of the caller: Calendar(["r1", "r2"]) on which it called
\* add_slot("r2", 0, 2, "a").
CallerCalendar == cal_add_slot(cal_init(<<"r1", "r2">>), "r2", 0, 2, "a").group

\* The Calendar a caller passes to add_calendar: none, a Calendar of its own,
\* or the Calendar it got from get_calendar(key).
CalendarArgs ==
    {[kind |-> "none", group |-> <<>>, key |-> ""],
     [kind |-> "new", group |-> CallerCalendar, key |-> ""]}
    \cup {[kind |-> "held", group |-> <<>>, key |-> k] : k \in CalendarKeys}

\* The assignments bulk calls are made of, and the lists of them.
BulkItems ==
    {<<"k1", "r1", 0, 2, "a">>, <<"k1", "r1", 1, 2, "a">>,
     <<NoneKey, "r2", 0, 1, "a">>, <<"k1", "r1", 1, 1, "a">>}

BulkLists == UNION {[1..n -> BulkItems] : n \in 0..MaxBulk}

\* The number of intervals held by the Calendars of the manager.
RECURSIVE SumLen(_, _)
SumLen(seq, i) == IF i > Len(seq) THEN 0 ELSE Len(seq[i][2]) + SumLen(seq, i + 1)

RECURSIVE TotalSlotsFrom(_, _)
TotalSlotsFrom(objs, j) ==
    IF j > Len(objs) THEN 0 ELSE SumLen(objs[j], 1) + TotalSlotsFrom(objs, j + 1)

TotalSlots(m) == TotalSlotsFrom(Collect(m).objs, 1)

\* The caller after a call on the manager: what it called and what came back.
MgrCall(op, key, resource, start, end, arg, raised, ret) ==
    [op |-> op, key |-> key, resource |-> resource, start |-> start,
     end |-> end, arg |-> arg, raised |-> raised, ret |-> ret, pre |-> mgr]

\* A read that binds a missing key to a new Calendar, as a defaultdict would.
MgrRead_creating(op, key, resource, time, ret) ==
    /\ mlast' = MgrCall(op, key, resource, time, time, <<>>, FALSE, ret)
    /\ mgr' = IF dict_has(mgr.cals, key) THEN mgr
              ELSE mgr_add_calendar(mgr, key, NoRef)

\* A call that changes nothing: the manager stays as it is.
MgrRead(op, key, resource, time, ret) ==
    /\ mlast' = MgrCall(op, key, resource, time, time, <<>>, FALSE, ret)
    /\ UNCHANGED mgr

\* The mappings a caller constructs the manager from: none (or an empty one),
\* one Calendar under a key, one Calendar under two keys.
InitialCalendars ==
    {EmptyManager,
     [cals |-> <<<<"k1", 1>>>>, objs |-> <<cal_init(<<>>)>>],
     [cals |-> <<<<"k1", 1>>, <<NoneKey, 1>>>>, objs |-> <<cal_init(<<"r1">>)>>]}

\* CalendarManager.__init__(calendars): self._calendars = calendars or {}
mgr_init(calendars) ==
    IF Len(calendars.cals) = 0 THEN EmptyManager ELSE calendars

\* The state after CalendarManager(calendars)
MgrInit ==
    /\ \E calendars \in InitialCalendars : mgr = mgr_init(calendars)
    /\ mlast = MgrIdle
    /\ slots = <<>>
    /\ last = Idle
    /\ default_timezone = UTC

\* A call of CalendarManager.add_calendar(key, calendar)
MgrAddCalendar ==
    /\ mlast.op = "idle"
    /\ UNCHANGED svars
    /\ \E key \in CalendarKeys, c \in CalendarArgs :
        LET m0 == IF c.kind = "new"
                  THEN [mgr EXCEPT !.objs = Append(@, c.group)]
                  ELSE mgr
            calendar == CASE c.kind = "none" -> NoRef
                          [] c.kind = "new" -> Len(m0.objs)
                          [] c.kind = "held" -> mgr_get_calendar(mgr, c.key)
            m1 == mgr_add_calendar(m0, key, calendar)
        IN  /\ TotalSlots(m1) <= MaxSlots
            /\ mgr' = Collect(m1)
            /\ mlast' = MgrCall("add_calendar", key, "", 0, 0, c, FALSE, None)

\* A call of CalendarManager.remove_calendar(key)
MgrRemoveCalendar ==
    /\ mlast.op = "idle"
    /\ UNCHANGED svars
    /\ \E key \in CalendarKeys :
        LET r == mgr_remove_calendar(mgr, key)
        IN  /\ mgr' = Collect(r.mgr)
            /\ mlast' = MgrCall("remove_calendar", key, "", 0, 0, <<>>,
                                r.raised, r.ret)

\* A call of CalendarManager.get_calendar(key)
MgrGetCalendar ==
    /\ mlast.op = "idle"
    /\ UNCHANGED svars
    /\ \E key \in CalendarKeys :
        MgrRead("get_calendar", key, "", 0, mgr_get_calendar(mgr, key))

\* A call of CalendarManager.get_all_calendar_keys()
MgrGetAllCalendarKeys ==
    /\ mlast.op = "idle"
    /\ UNCHANGED svars
    /\ MgrRead("get_all_calendar_keys", "", "", 0, mgr_get_all_calendar_keys(mgr))

\* A call of CalendarManager.add_slot(calendar_key, resource_id, start, end, data)
MgrAddSlot ==
    /\ mlast.op = "idle"
    /\ UNCHANGED svars
    /\ \E key \in CalendarKeys, rid \in Resources, q \in MgrRequests :
        LET r == mgr_add_slot(mgr, key, rid, q[1], q[2], "a")
        IN  /\ TotalSlots(r.mgr) <= MaxSlots
            /\ mgr' = Collect(r.mgr)
            /\ mlast' = MgrCall("add_slot", key, rid, q[1], q[2], <<>>,
                                r.raised, r.ret)

\* A call of CalendarManager.add_slot_with_shift(calendar_key, resource_id,
\* start, end, data)
MgrAddSlotWithShift ==
    /\ mlast.op = "idle"
    /\ UNCHANGED svars
    /\ \E key \in CalendarKeys, rid \in Resources, q \in MgrRequests :
        LET r == mgr_add_slot_with_shift(mgr, key, rid, q[1], q[2], "a")
        IN  /\ TotalSlots(r.mgr) <= MaxSlots
            /\ mgr' = Collect(r.mgr)
            /\ mlast' = MgrCall("add_slot_with_shift", key, rid, q[1], q[2],
                                <<>>, r.raised, r.ret)

\* A call of CalendarManager.get_slots_at(time, calendar_key); a call without
\* calendar_key passes None.
MgrGetSlotsAt ==
    /\ mlast.op = "idle"
    /\ UNCHANGED svars
    /\ \E time \in MgrTimes, key \in CalendarKeys :
        MgrRead("get_slots_at", key, "", time, mgr_get_slots_at(mgr, time, key))

\* A call of CalendarManager.get_all_slots_at(time)
MgrGetAllSlotsAt ==
    /\ mlast.op = "idle"
    /\ UNCHANGED svars
    /\ \E time \in MgrTimes :
        MgrRead("get_all_slots_at", "", "", time, mgr_get_all_slots_at(mgr, time))

\* A call of CalendarManager.add_resource_to_calendar(calendar_key, resource_id)
MgrAddResourceToCalendar ==
    /\ mlast.op = "idle"
    /\ UNCHANGED svars
    /\ \E key \in CalendarKeys, rid \in Resources :
        /\ mgr' = Collect(mgr_add_resource_to_calendar(mgr, key, rid))
        /\ mlast' = MgrCall("add_resource_to_calendar", key, rid, 0, 0, <<>>,
                            FALSE, None)

\* A call of CalendarManager.get_calendar_resources(calendar_key)
MgrGetCalendarResources ==
    /\ mlast.op = "idle"
    /\ UNCHANGED svars
    /\ \E key \in CalendarKeys :
        MgrRead("get_calendar_resources", key, "", 0,
                mgr_get_calendar_resources(mgr, key))

\* A call of CalendarManager.get_all_resources()
MgrGetAllResources ==
    /\ mlast.op = "idle"
    /\ UNCHANGED svars
    /\ MgrRead("get_all_resources", "", "", 0, mgr_get_all_resources(mgr))

\* A call of CalendarManager.bulk_assign_slots(assignments)
MgrBulkAssignSlots ==
    /\ mlast.op = "idle"
    /\ UNCHANGED svars
    /\ \E assignments \in BulkLists :
        LET r == bulk_assign_slots(mgr, assignments)
        IN  /\ TotalSlots(r.mgr) <= MaxSlots
            /\ mgr' = Collect(r.mgr)
            /\ mlast' = MgrCall("bulk_assign_slots", "", "", 0, 0, assignments,
                                r.raised, r.ret)

\* A call of CalendarManager.bulk_assign_slots_with_shift(assignments)
MgrBulkAssignSlotsWithShift ==
    /\ mlast.op = "idle"
    /\ UNCHANGED svars
    /\ \E assignments \in BulkLists :
        LET r == bulk_assign_slots_with_shift(mgr, assignments)
        IN  /\ TotalSlots(r.mgr) <= MaxSlots
            /\ mgr' = Collect(r.mgr)
            /\ mlast' = MgrCall("bulk_assign_slots_with_shift", "", "", 0, 0,
                                assignments, r.raised, r.ret)

\* A call of Calendar.remove_resource(resource_id) on get_calendar(key)
CalRemoveResource ==
    /\ mlast.op = "idle"
    /\ UNCHANGED svars
    /\ \E key \in CalendarKeys, rid \in Resources :
        /\ dict_has(mgr.cals, key)
        /\ LET ref == mgr_get_calendar(mgr, key)
               r == cal_remove_resource(mgr.objs[ref], rid)
           IN  /\ mgr' = [mgr EXCEPT !.objs[ref] = r.group]
               /\ mlast' = MgrCall("cal.remove_resource", key, rid, 0, 0, <<>>,
                                   r.raised, r.ret)

\* A call of Calendar.get_calendar(resource_id) on get_calendar(key)
CalGetCalendar ==
    /\ mlast.op = "idle"
    /\ UNCHANGED svars
    /\ \E key \in CalendarKeys, rid \in Resources :
        /\ dict_has(mgr.cals, key)
        /\ MgrRead("cal.get_calendar", key, rid, 0,
                   cal_get_calendar(mgr_calendar(mgr, key), rid))

\* A call of Calendar.get_slots_at(time) on get_calendar(key)
CalGetSlotsAt ==
    /\ mlast.op = "idle"
    /\ UNCHANGED svars
    /\ \E key \in CalendarKeys, time \in MgrTimes :
        /\ dict_has(mgr.cals, key)
        /\ MgrRead("cal.get_slots_at", key, "", time,
                   cal_get_slots_at(mgr_calendar(mgr, key), time))

\* A call of Calendar.get_all_resources() on get_calendar(key)
CalGetAllResources ==
    /\ mlast.op = "idle"
    /\ UNCHANGED svars
    /\ \E key \in CalendarKeys :
        /\ dict_has(mgr.cals, key)
        /\ MgrRead("cal.get_all_resources", key, "", 0,
                   cal_get_all_resources(mgr_calendar(mgr, key)))

\* A call of CalendarBase.remove_slot(start) on
\* get_calendar(key).get_calendar(resource_id)
StoreRemoveSlot ==
    /\ mlast.op = "idle"
    /\ UNCHANGED svars
    /\ \E key \in CalendarKeys, rid \in Resources, start \in MgrTimes :
        /\ dict_has(mgr.cals, key)
        /\ dict_has(mgr_calendar(mgr, key), rid)
        /\ LET ref == mgr_get_calendar(mgr, key)
               r == remove_slot(dict_get(mgr.objs[ref], rid), start)
           IN  /\ mgr' = [mgr EXCEPT !.objs[ref] = dict_set(@, rid, r.slots)]
               /\ mlast' = MgrCall("base.remove_slot", key, rid, start, start,
                                   <<>>, r.raised, r.ret)

\* The store of a resource of a calendar of the manager:
\* get_calendar(key).get_calendar(resource_id)
mgr_store(m, key, resource_id) == dict_get(mgr_calendar(m, key), resource_id)

\* A call of CalendarBase.get_slot_at(time) on
\* get_calendar(key).get_calendar(resource_id)
StoreGetSlotAt ==
    /\ mlast.op = "idle"
    /\ UNCHANGED svars
    /\ \E key \in CalendarKeys, rid \in Resources, time \in MgrTimes :
        /\ dict_has(mgr.cals, key)
        /\ dict_has(mgr_calendar(mgr, key), rid)
        /\ MgrRead("base.get_slot_at", key, rid, time,
                   get_slot_at(mgr_store(mgr, key, rid), time))

\* A call of CalendarBase.get_all_slots() on
\* get_calendar(key).get_calendar(resource_id)
StoreGetAllSlots ==
    /\ mlast.op = "idle"
    /\ UNCHANGED svars
    /\ \E key \in CalendarKeys, rid \in Resources :
        /\ dict_has(mgr.cals, key)
        /\ dict_has(mgr_calendar(mgr, key), rid)
        /\ MgrRead("base.get_all_slots", key, rid, 0,
                   get_all_slots(mgr_store(mgr, key, rid)))

\* A call of CalendarBase.left_slot(time) on
\* get_calendar(key).get_calendar(resource_id)
StoreLeftSlot ==
    /\ mlast.op = "idle"
    /\ UNCHANGED svars
    /\ \E key \in CalendarKeys, rid \in Resources, time \in MgrTimes :
        /\ dict_has(mgr.cals, key)
        /\ dict_has(mgr_calendar(mgr, key), rid)
        /\ MgrRead("base.left_slot", key, rid, time,
                   left_slot(mgr_store(mgr, key, rid), time))

\* A call of CalendarBase.right_slot(time) on
\* get_calendar(key).get_calendar(resource_id)
StoreRightSlot ==
    /\ mlast.op = "idle"
    /\ UNCHANGED svars
    /\ \E key \in CalendarKeys, rid \in Resources, time \in MgrTimes :
        /\ dict_has(mgr.cals, key)
        /\ dict_has(mgr_calendar(mgr, key), rid)
        /\ MgrRead("base.right_slot", key, rid, time,
                   right_slot(mgr_store(mgr, key, rid), time))

\* The caller is done with the outcome of its call on the manager.
MgrReturn ==
    /\ mlast.op # "idle"
    /\ mlast' = MgrIdle
    /\ UNCHANGED <<slots, last, mgr, default_timezone>>

MgrNext ==
    \/ MgrAddCalendar
    \/ MgrRemoveCalendar
    \/ MgrGetCalendar
    \/ MgrGetAllCalendarKeys
    \/ MgrAddSlot
    \/ MgrAddSlotWithShift
    \/ MgrGetSlotsAt
    \/ MgrGetAllSlotsAt
    \/ MgrAddResourceToCalendar
    \/ MgrGetCalendarResources
    \/ MgrGetAllResources
    \/ CalRemoveResource
    \/ CalGetCalendar
    \/ CalGetSlotsAt
    \/ CalGetAllResources
    \/ StoreRemoveSlot
    \/ StoreGetSlotAt
    \/ StoreGetAllSlots
    \/ StoreLeftSlot
    \/ StoreRightSlot
    \/ MgrReturn

\* The manager layer: calls on one CalendarManager and on its Calendars.
SpecMgr == MgrInit /\ [][MgrNext]_vars

BulkNext ==
    \/ MgrBulkAssignSlots
    \/ MgrBulkAssignSlotsWithShift
    \/ MgrRemoveCalendar
    \/ StoreRemoveSlot
    \/ MgrReturn

\* The bulk calls: lists of assignments on one CalendarManager.
SpecBulk == MgrInit /\ [][BulkNext]_vars

\* ================================================== the datetime layer
\* DatetimeCalendarBase (src/timeslotassigner/datetime_calendar.py): a
\* CalendarBase whose methods take and return datetimes.  A datetime is its
\* wall clock (sec whole seconds and half half-seconds) with its timezone:
\* aware is FALSE for a naive datetime (tzinfo None), else offset is the
\* offset of its timezone from UTC in seconds.
Datetime(sec, half, aware, offset) ==
    [sec |-> sec, half |-> half, aware |-> aware, offset |-> offset]

\* dt.replace(tzinfo=tz): the same wall clock in another timezone
replace_tzinfo(dt, tz) == Datetime(dt.sec, dt.half, TRUE, tz)

\* dt.timestamp() of an aware datetime, counted in half-seconds
timestamp(dt) == 2 * (dt.sec - dt.offset) + dt.half

\* int(x) of a timestamp counted in half-seconds: whole seconds, towards zero
int_seconds(halves) ==
    IF halves >= 0 THEN halves \div 2 ELSE -((-halves) \div 2)

\* _datetime_to_epoch(dt)
datetime_to_epoch(dt) ==
    LET d == IF ~dt.aware THEN replace_tzinfo(dt, UTC) ELSE dt
    IN  int_seconds(timestamp(d))

\* _epoch_to_datetime(epoch, tz)
epoch_to_datetime(epoch, tz) == Datetime(epoch + tz, 0, TRUE, tz)

\* DatetimeCalendarBase._normalize_datetime(dt)
normalize_datetime(tz, dt) ==
    IF ~dt.aware THEN replace_tzinfo(dt, tz) ELSE dt

\* DatetimeCalendarBase.add_slot(start, end, data)
dt_add_slot(tz, s, start, end, data) ==
    LET start_epoch == datetime_to_epoch(normalize_datetime(tz, start))
        end_epoch == datetime_to_epoch(normalize_datetime(tz, end))
    IN  add_slot(s, start_epoch, end_epoch, data)

\* DatetimeCalendarBase.add_slot_with_shift(start, end, data)
dt_add_slot_with_shift(tz, s, start, end, data) ==
    LET start_epoch == datetime_to_epoch(normalize_datetime(tz, start))
        end_epoch == datetime_to_epoch(normalize_datetime(tz, end))
        r == add_slot_with_shift(s, start_epoch, end_epoch, data)
    IN  IF r.raised THEN r
        ELSE Outcome(FALSE, <<epoch_to_datetime(r.ret[1], tz),
                              epoch_to_datetime(r.ret[2], tz)>>, r.slots)

\* DatetimeCalendarBase.remove_slot(start)
dt_remove_slot(tz, s, start) ==
    remove_slot(s, datetime_to_epoch(normalize_datetime(tz, start)))

\* DatetimeCalendarBase.get_slot_at(time)
dt_get_slot_at(tz, s, time) ==
    LET time_epoch == datetime_to_epoch(normalize_datetime(tz, time))
        result == get_slot_at(s, time_epoch)
    IN  IF result # None
        THEN <<epoch_to_datetime(result[1], tz),
               epoch_to_datetime(result[2], tz), result[3]>>
        ELSE None

\* DatetimeCalendarBase.get_all_slots()
dt_get_all_slots(tz, s) ==
    LET epoch_slots == get_all_slots(s)
    IN  [i \in 1..Len(epoch_slots) |->
            <<epoch_to_datetime(epoch_slots[i][1], tz),
              epoch_to_datetime(epoch_slots[i][2], tz), epoch_slots[i][3]>>]

\* The datetimes callers pass.
Datetimes ==
    {Datetime(sec, half, TRUE, offset) :
        sec \in 1..MaxSecond, half \in {0, 1}, offset \in Offsets}
    \cup {Datetime(sec, half, FALSE, 0) : sec \in 1..MaxSecond, half \in {0, 1}}

\* DatetimeCalendarBase.__init__(resource_id, default_timezone)
DtInit ==
    /\ slots = <<>>
    /\ last = Idle
    /\ mgr = EmptyManager
    /\ mlast = MgrIdle
    /\ default_timezone \in Offsets

\* A call of DatetimeCalendarBase.add_slot(start, end, data)
DtAddSlot ==
    /\ last.op = "idle"
    /\ UNCHANGED mvars
    /\ \E start \in Datetimes, end \in Datetimes, data \in Data :
        LET r == dt_add_slot(default_timezone, slots, start, end, data)
        IN  /\ slots' = r.slots
            /\ last' = Call("dt.add_slot", start, end, data, r)

\* A call of DatetimeCalendarBase.add_slot_with_shift(start, end, data)
DtAddSlotWithShift ==
    /\ last.op = "idle"
    /\ UNCHANGED mvars
    /\ \E start \in Datetimes, end \in Datetimes, data \in Data :
        LET r == dt_add_slot_with_shift(default_timezone, slots, start, end, data)
        IN  /\ IF r.raised THEN TRUE
               ELSE datetime_to_epoch(r.ret[2]) <= DtHorizon
            /\ slots' = r.slots
            /\ last' = Call("dt.add_slot_with_shift", start, end, data, r)

\* A call of DatetimeCalendarBase.remove_slot(start)
DtRemoveSlot ==
    /\ last.op = "idle"
    /\ UNCHANGED mvars
    /\ \E start \in Datetimes :
        LET r == dt_remove_slot(default_timezone, slots, start)
        IN  /\ slots' = r.slots
            /\ last' = Call("dt.remove_slot", start, start, "a", r)

\* A call of DatetimeCalendarBase.get_slot_at(time)
DtGetSlotAt ==
    /\ last.op = "idle"
    /\ UNCHANGED mvars
    /\ \E time \in Datetimes :
        /\ last' = Call("dt.get_slot_at", time, time, "a",
                        Outcome(FALSE,
                                dt_get_slot_at(default_timezone, slots, time),
                                slots))
        /\ UNCHANGED slots

\* A call of DatetimeCalendarBase.get_all_slots()
DtGetAllSlots ==
    /\ last.op = "idle"
    /\ UNCHANGED mvars
    /\ last' = Call("dt.get_all_slots", 0, 0, "a",
                    Outcome(FALSE, dt_get_all_slots(default_timezone, slots),
                            slots))
    /\ UNCHANGED slots

DtNext ==
    \/ DtAddSlot
    \/ DtAddSlotWithShift
    \/ DtRemoveSlot
    \/ DtGetSlotAt
    \/ DtGetAllSlots
    \/ Return

\* The calls on one DatetimeCalendarBase.
SpecDt == DtInit /\ [][DtNext]_vars

\* ============================================================== properties
\* The stored intervals as a set of triples <<start, end, data>>.
Intervals(s) == {<<s[i][1], s[i][2][1], s[i][2][2]>> : i \in 1..Len(s)}

\* No stored interval [iv.start, iv.end) meets [start, end): the scan of the
\* whole store.
ScanFree(s, start, end) ==
    \A iv \in Intervals(s) : ~(iv[1] < end /\ start < iv[2])

\* The smallest t >= start at which an interval of length d meets no stored
\* interval (every stored end is at most Horizon, so Horizon itself is free).
LeastFree(s, start, d) ==
    CHOOSE t \in start..Horizon :
        /\ ScanFree(s, t, t + d)
        /\ \A u \in start..(t - 1) : ~ScanFree(s, u, u + d)

ShiftCall == last.op = "add_slot_with_shift" /\ ~last.raised

\* C1: after any sequence of add_slot, add_slot_with_shift and remove_slot
\* calls, successful or not, no two stored intervals overlap: of two stored
\* intervals the one that starts first ends no later than the other starts.
C1_NoOverlap ==
    \A i, j \in 1..Len(slots) :
        i # j =>
            /\ ~(slots[i][1] < slots[j][2][1] /\ slots[j][1] < slots[i][2][1])
            /\ slots[i][1] < slots[j][1] => slots[i][2][1] <= slots[j][1]

\* C1 witness: a shifted insertion into a store of two or more intervals, right
\* after one of them.
C1_Witness ==
    /\ ShiftCall
    /\ last.ret[1] > last.start
    /\ Len(last.pre) >= 2
    /\ \E iv \in Intervals(last.pre) : iv[2] = last.ret[1]

\* C2: add_slot(start, end) with start < end returns True exactly when the
\* scan of the whole store finds no interval [s, e) with s < end and start < e;
\* the two-neighbour check of _has_conflict agrees with the full scan in every
\* reachable store, and an interval that only touches the request is no conflict.
C2_AddSlotIffScanFree ==
    /\ (last.op = "add_slot" /\ ~last.raised) =>
            last.ret = ScanFree(last.pre, last.start, last.end)
    /\ last.op = "idle" =>
            \A a \in StoredTimes, b \in StoredTimes :
                a < b => (has_conflict(slots, a, b) <=> ~ScanFree(slots, a, b))

\* C2 witness: add_slot returned True for a request that touches a stored
\* interval on each side.
C2_Witness ==
    /\ last.op = "add_slot" /\ ~last.raised
    /\ last.ret = TRUE
    /\ \E iv \in Intervals(last.pre) : iv[2] = last.start
    /\ \E iv \in Intervals(last.pre) : iv[1] = last.end

\* C3: when add_slot returns False the store is unchanged: the same intervals
\* with the same ends and payloads as before the call.
C3_RejectedAddKeepsStore ==
    (last.op = "add_slot" /\ ~last.raised /\ last.ret = FALSE) =>
        slots = last.pre

\* C3 witness: add_slot returned False for a request whose start is the start of
\* a stored interval with another end and another payload.
C3_Witness ==
    /\ last.op = "add_slot" /\ ~last.raised
    /\ last.ret = FALSE
    /\ \E iv \in Intervals(last.pre) :
            iv[1] = last.start /\ iv[2] # last.end /\ iv[3] # last.data

\* C4: add_slot_with_shift(start, end) with start < end returns (t, t + d),
\* d = end - start, where t is the smallest integer >= start such that
\* [t, t + d) overlaps no stored interval; so does the search for every request
\* in every reachable store.
C4_ShiftSmallestFree ==
    /\ ShiftCall =>
            LET d == last.end - last.start
                t == LeastFree(last.pre, last.start, d)
            IN  last.ret = <<t, t + d>>
    /\ last.op = "idle" =>
            \A a \in Times, b \in Times :
                a < b => find_available_slot(slots, a, b - a)
                            = LeastFree(slots, a, b - a)

\* C4 witness: a shift that passes two stored intervals and a free gap between
\* them that is too short for the request.
C4_Witness ==
    /\ ShiftCall
    /\ Cardinality({iv \in Intervals(last.pre) :
                        last.start < iv[2] /\ iv[2] <= last.ret[1]}) >= 2
    /\ \E u \in last.start..(last.ret[1] - 1) : ScanFree(last.pre, u, u + 1)

\* C5: add_slot_with_shift(start, end, data) with start < end returns (a, b)
\* with b - a = end - start, and the store afterwards is the store before plus
\* the one interval (a, b, data): one more interval, none of the old ones
\* overwritten, moved or removed.
C5_ShiftAddsOne ==
    ShiftCall =>
        /\ last.ret[2] - last.ret[1] = last.end - last.start
        /\ Len(slots) = Len(last.pre) + 1
        /\ <<last.ret[1], last.ret[2], last.data>> \notin Intervals(last.pre)
        /\ Intervals(slots) =
                Intervals(last.pre) \cup {<<last.ret[1], last.ret[2], last.data>>}

\* C5 witness: a shifted insertion (the returned start differs from the
\* requested one) into a store that holds an interval at the requested start.
C5_Witness ==
    /\ ShiftCall
    /\ last.ret[1] # last.start
    /\ last.start \in KeySet(last.pre)
    /\ Len(slots) >= 3

\* C6: add_slot and add_slot_with_shift called with start >= end (equal or
\* reversed) raise instead of returning a value, and leave the store
\* unchanged, whatever it contains.
C6_InvalidRangeRaises ==
    (last.op \in {"add_slot", "add_slot_with_shift"} /\ last.start >= last.end) =>
        /\ last.raised
        /\ last.ret = None
        /\ slots = last.pre

\* C6 witness: add_slot_with_shift(start, start) raised on a store that holds
\* intervals and is free at start.
C6_Witness ==
    /\ last.op = "add_slot_with_shift"
    /\ last.start = last.end
    /\ last.raised
    /\ Len(last.pre) >= 2
    /\ ScanFree(last.pre, last.start, last.start + 1)

\* The stored intervals that contain time.
Hits(s, time) == {iv \in Intervals(s) : iv[1] <= time /\ time < iv[2]}

\* C7: get_slot_at(time) returns the stored interval (s, e, data) with
\* s <= time < e when one exists, there is at most one, and None otherwise;
\* time = e of an interval is a miss unless another interval starts at e.
C7_GetSlotAt ==
    last.op = "get_slot_at" =>
        LET h == Hits(last.pre, last.start)
        IN  /\ Cardinality(h) <= 1
            /\ IF h = {} THEN last.ret = None ELSE last.ret \in h
            /\ ( /\ \E iv \in Intervals(last.pre) : iv[2] = last.start
                 /\ last.start \notin KeySet(last.pre) ) => last.ret = None

\* C7 witness: get_slot_at(e) at the end e of one interval, where another
\* interval starts, returns that other interval.
C7_Witness ==
    /\ last.op = "get_slot_at"
    /\ last.ret # None
    /\ last.ret[1] = last.start
    /\ \E iv \in Intervals(last.pre) : iv[2] = last.start

\* l lists the intervals of the set S, each once, in strictly ascending order
\* of start.
ListsAscending(l, S) ==
    /\ Len(l) = Cardinality(S)
    /\ {l[i] : i \in 1..Len(l)} = S
    /\ \A i, j \in 1..Len(l) : i < j => l[i][1] < l[j][1]

\* C8: after any sequence of store operations get_all_slots() lists every
\* stored interval exactly once in strictly ascending order of start, whatever
\* the order in which the intervals were inserted.
C8_AllSlotsAscending ==
    /\ ListsAscending(get_all_slots(slots), Intervals(slots))
    /\ Cardinality(KeySet(slots)) = Len(slots)
    /\ last.op = "get_all_slots" => ListsAscending(last.ret, Intervals(last.pre))

\* C8 witness: get_all_slots() on a store of three or more intervals.
C8_Witness ==
    /\ last.op = "get_all_slots"
    /\ Len(last.ret) >= 3
    /\ last.ret[1][2] < last.ret[2][1]

\* C9: remove_slot(x) returns True exactly when a stored interval starts at x
\* and then removes that interval only; otherwise it returns False and changes
\* nothing; a second remove_slot(x) right after it returns False.
C9_RemoveSlot ==
    last.op = "remove_slot" =>
        /\ last.ret = (\E iv \in Intervals(last.pre) : iv[1] = last.start)
        /\ IF last.ret
           THEN /\ Intervals(slots) =
                        {iv \in Intervals(last.pre) : iv[1] # last.start}
                /\ Len(slots) = Len(last.pre) - 1
           ELSE slots = last.pre
        /\ remove_slot(slots, last.start).ret = FALSE
        /\ remove_slot(slots, last.start).slots = slots

\* C9 witness: remove_slot(x) removed the middle one of three or more intervals.
C9_Witness ==
    /\ last.op = "remove_slot"
    /\ last.ret = TRUE
    /\ \E iv \in Intervals(slots) : iv[1] < last.start
    /\ \E iv \in Intervals(slots) : iv[1] > last.start

\* C10: left_slot(x) returns the stored interval with the greatest start < x,
\* right_slot(x) the one with the smallest start > x, None when there is none;
\* only starts are compared, and an interval that starts at x is returned by
\* neither.
C10_LeftRightSlot ==
    /\ last.op = "left_slot" =>
            LET c == {iv \in Intervals(last.pre) : iv[1] < last.start}
            IN  IF c = {} THEN last.ret = None
                ELSE last.ret \in c /\ \A iv \in c : iv[1] <= last.ret[1]
    /\ last.op = "right_slot" =>
            LET c == {iv \in Intervals(last.pre) : iv[1] > last.start}
            IN  IF c = {} THEN last.ret = None
                ELSE last.ret \in c /\ \A iv \in c : iv[1] >= last.ret[1]

\* C10 witness: left_slot(x) for the start x of a stored interval returns the
\* interval before it, which ends before x.
C10_Witness ==
    /\ last.op = "left_slot"
    /\ last.start \in KeySet(last.pre)
    /\ last.ret # None
    /\ last.ret[2] < last.start

\* The number of iterations the loop of _find_available_slot makes from
\* candidate t until it returns, counted up to fuel; fuel + 1 when the loop has
\* not returned after fuel iterations.
RECURSIVE Iterations(_, _, _, _)
Iterations(s, t, d, fuel) ==
    IF fuel = 0 THEN 1
    ELSE LET r == find_step(s, t, d)
         IN  IF r.done THEN 1 ELSE 1 + Iterations(s, r.time, d, fuel - 1)

\* C11: the shift search terminates for every reachable store and every
\* request with start < end: every iteration that does not return moves the
\* candidate t to the end of a stored interval and strictly increases it, so
\* the loop returns after at most one iteration per stored interval plus one.
C11_ShiftSearchTerminates ==
    last.op = "idle" =>
        /\ \A t \in StoredTimes, d \in 1..MaxTime :
                LET r == find_step(slots, t, d)
                IN  ~r.done =>
                        /\ r.time > t
                        /\ \E iv \in Intervals(slots) : iv[2] = r.time
        /\ \A a \in Times, b \in Times :
                a < b => Iterations(slots, a, b - a, Len(slots) + 1)
                            <= Len(slots) + 1

\* C11 witness: a shift whose search made three or more iterations, the first
\* past an interval that covers the requested start, a later one past an
\* interval that starts after the candidate.
C11_Witness ==
    /\ ShiftCall
    /\ Iterations(last.pre, last.start, last.end - last.start,
                  Len(last.pre) + 1) >= 3
    /\ find_step(last.pre, last.start, last.end - last.start).branch = "prev"
    /\ \E t \in StoredTimes :
            /\ last.start < t /\ t < last.ret[1]
            /\ find_step(last.pre, t, last.end - last.start).branch = "next"
            /\ \E iv \in Intervals(last.pre) : iv[2] = t

\* The registry after CalendarManager.add_slot (add_slot_with_shift when
\* shift) was called once for each of the first k assignments, in order.
RECURSIVE AfterCalls(_, _, _, _)
AfterCalls(m, assignments, k, shift) ==
    IF k = 0 THEN m
    ELSE LET a == assignments[k]
             before == AfterCalls(m, assignments, k - 1, shift)
         IN  IF shift
             THEN mgr_add_slot_with_shift(before, a[1], a[2], a[3], a[4], a[5]).mgr
             ELSE mgr_add_slot(before, a[1], a[2], a[3], a[4], a[5]).mgr

\* What the k-th single call returns.
CallResult(m, assignments, k, shift) ==
    LET a == assignments[k]
        before == AfterCalls(m, assignments, k - 1, shift)
    IN  IF shift
        THEN mgr_add_slot_with_shift(before, a[1], a[2], a[3], a[4], a[5]).ret
        ELSE mgr_add_slot(before, a[1], a[2], a[3], a[4], a[5]).ret

AllValid(assignments) ==
    \A i \in 1..Len(assignments) : assignments[i][3] < assignments[i][4]

BulkOps == {"bulk_assign_slots", "bulk_assign_slots_with_shift"}

\* C12: for a list of assignments that all have start < end, a bulk call
\* returns, position by position, what single add_slot (add_slot_with_shift)
\* calls in input order return, and leaves the registry those calls leave; a
\* rejected item gives False at its position and the items after it are
\* still processed.
C12_BulkIsSequential ==
    (mlast.op \in BulkOps /\ AllValid(mlast.arg)) =>
        LET shift == mlast.op = "bulk_assign_slots_with_shift"
            n == Len(mlast.arg)
        IN  /\ ~mlast.raised
            /\ Len(mlast.ret) = n
            /\ \A k \in 1..n :
                mlast.ret[k] = CallResult(mlast.pre, mlast.arg, k, shift)
            /\ mgr = Collect(AfterCalls(mlast.pre, mlast.arg, n, shift))

\* A bulk call whose first item is rejected for conflict and whose second
\* item is stored.
C12_Witness ==
    /\ mlast.op = "bulk_assign_slots"
    /\ AllValid(mlast.arg)
    /\ mlast.ret = <<FALSE, TRUE>>

\* C13: for every list of assignments, whatever the start and end of its
\* items, a bulk call does not abort: it returns a list as long as its input,
\* one result per item, and for the shift variant every result is a
\* (start, end) pair.
C13_BulkNeverAborts ==
    mlast.op \in BulkOps =>
        /\ ~mlast.raised
        /\ Len(mlast.ret) = Len(mlast.arg)
        /\ mlast.op = "bulk_assign_slots_with_shift" =>
            \A k \in 1..Len(mlast.ret) : Len(mlast.ret[k]) = 2

\* The sequence a is the beginning of the sequence b.
Prefix(a, b) == Len(a) <= Len(b) /\ \A i \in 1..Len(a) : a[i] = b[i]

\* The sequence a followed by x when x is not in it, a itself otherwise.
WithLast(a, x) == IF \E i \in 1..Len(a) : a[i] = x THEN a ELSE Append(a, x)

WriteOps == {"add_slot", "add_slot_with_shift", "add_resource_to_calendar"}

\* Every calendar of the registry m is still in the registry n under its key,
\* with every resource it had and every interval they held.
Kept(m, n) ==
    \A key \in {m.cals[i][1] : i \in 1..Len(m.cals)} :
        /\ dict_has(n.cals, key)
        /\ \A rid \in {mgr_calendar(m, key)[i][1] :
                         i \in 1..Len(mgr_calendar(m, key))} :
            /\ dict_has(mgr_calendar(n, key), rid)
            /\ Intervals(mgr_store(m, key, rid))
                  \subseteq Intervals(mgr_store(n, key, rid))

\* C14: add_slot, add_slot_with_shift and add_resource_to_calendar (and the
\* Calendar.add_slot, add_slot_with_shift and add_resource they call) create
\* the addressed calendar and resource exactly when absent, after the ones
\* already there; a calendar or resource that exists keeps its stored
\* intervals and its other resources.
C14_WritesCreateNeverReset ==
    mlast.op \in WriteOps =>
        LET pre == mlast.pre
            had == dict_has(pre.cals, mlast.key)
            resources == IF had THEN dict_keys(mgr_calendar(pre, mlast.key))
                         ELSE <<>>
        IN  /\ dict_keys(mgr.cals) = WithLast(dict_keys(pre.cals), mlast.key)
            /\ dict_keys(mgr_calendar(mgr, mlast.key))
                  = WithLast(resources, mlast.resource)
            /\ Kept(pre, mgr)
            /\ \A rid \in Resources \ {mlast.resource} :
                (had /\ dict_has(mgr_calendar(pre, mlast.key), rid)) =>
                    mgr_store(mgr, mlast.key, rid) = mgr_store(pre, mlast.key, rid)

\* add_slot stores a second interval in a resource that already held one.
C14_Witness ==
    /\ mlast.op = "add_slot"
    /\ ~mlast.raised
    /\ mlast.ret = TRUE
    /\ dict_has(mlast.pre.cals, mlast.key)
    /\ dict_has(mgr_calendar(mlast.pre, mlast.key), mlast.resource)
    /\ Len(mgr_store(mlast.pre, mlast.key, mlast.resource)) = 1
    /\ Len(mgr_store(mgr, mlast.key, mlast.resource)) = 2

ManagerReads ==
    {"get_calendar", "get_slots_at", "get_all_slots_at",
     "get_calendar_resources", "get_all_resources", "get_all_calendar_keys"}

CalendarReads == {"cal.get_calendar", "cal.get_slots_at", "cal.get_all_resources"}

StoreReads ==
    {"base.get_slot_at", "base.get_all_slots", "base.left_slot", "base.right_slot"}

\* C15: the read calls of the manager, of a Calendar and of a store leave
\* the keys, the resources of every calendar and every store as they were;
\* for a missing key or resource they return None or an empty list or dict,
\* and the key or resource is still missing afterwards.
C15_ReadsChangeNothing ==
    mlast.op \in ManagerReads \cup CalendarReads \cup StoreReads =>
        LET missing == ~dict_has(mlast.pre.cals, mlast.key)
        IN  /\ mgr = mlast.pre
            /\ ~mlast.raised
            /\ (mlast.op = "get_calendar" /\ missing) =>
                  (mlast.ret = NoRef /\ ~dict_has(mgr.cals, mlast.key))
            /\ (mlast.op = "get_slots_at" /\ mlast.key # NoneKey /\ missing) =>
                  (mlast.ret = <<>> /\ ~dict_has(mgr.cals, mlast.key))
            /\ (mlast.op = "get_calendar_resources" /\ missing) =>
                  (mlast.ret = <<>> /\ ~dict_has(mgr.cals, mlast.key))
            /\ (mlast.op = "cal.get_calendar"
                  /\ ~dict_has(mgr_calendar(mlast.pre, mlast.key), mlast.resource)) =>
                  /\ mlast.ret = None
                  /\ ~dict_has(mgr_calendar(mgr, mlast.key), mlast.resource)

\* get_calendar_resources for a missing key, in a registry that has another.
C15_Witness ==
    /\ mlast.op = "get_calendar_resources"
    /\ ~dict_has(mlast.pre.cals, mlast.key)
    /\ Len(mlast.pre.cals) = 1
    /\ mlast.ret = <<>>
    /\ Len(mgr.cals) = 1

\* The Calendar the caller of add_calendar passed: its resources and stores
\* (an absent one, or get_calendar of a missing key, stands for no Calendar,
\* for which add_calendar makes an empty one).
GivenGroup(pre, c) ==
    CASE c.kind = "none" -> <<>>
      [] c.kind = "new" -> c.group
      [] c.kind = "held" ->
            IF dict_has(pre.cals, c.key) THEN mgr_calendar(pre, c.key) ELSE <<>>

\* C16: add_calendar(key, group) binds key to exactly the given group, or to
\* an empty group when none is given: what the group under key held before
\* is replaced by it, not merged into it; the number of keys grows by one
\* exactly when key was absent, and the other keys keep their groups.
C16_AddCalendarReplaces ==
    mlast.op = "add_calendar" =>
        LET pre == mlast.pre
            given == GivenGroup(pre, mlast.arg)
        IN  /\ ~mlast.raised
            /\ mlast.ret = None
            /\ mgr_calendar(mgr, mlast.key) = given
            /\ dict_keys(mgr.cals) = WithLast(dict_keys(pre.cals), mlast.key)
            /\ Len(mgr.cals) = Len(pre.cals)
                  + (IF dict_has(pre.cals, mlast.key) THEN 0 ELSE 1)
            /\ \A i \in 1..Len(pre.cals) :
                pre.cals[i][1] # mlast.key =>
                    mgr_calendar(mgr, pre.cals[i][1])
                        = mgr_calendar(pre, pre.cals[i][1])
            /\ \A rid \in Resources :
                (/\ dict_has(pre.cals, mlast.key)
                 /\ dict_has(mgr_calendar(pre, mlast.key), rid)
                 /\ ~dict_has(given, rid)) =>
                    ~dict_has(mgr_calendar(mgr, mlast.key), rid)

\* add_calendar with a Calendar of the caller on a key whose Calendar holds
\* an interval.
C16_Witness ==
    /\ mlast.op = "add_calendar"
    /\ mlast.arg.kind = "new"
    /\ dict_has(mlast.pre.cals, mlast.key)
    /\ dict_has(mgr_calendar(mlast.pre, mlast.key), "r1")
    /\ Len(mgr_store(mlast.pre, mlast.key, "r1")) > 0
    /\ mgr_calendar(mgr, mlast.key) = CallerCalendar

\* The (resource_id, start, end, data) of the intervals containing time in
\* the stores of the Calendar g.
GroupHits(g, time) ==
    UNION {{<<g[i][1], iv[1], iv[2], iv[3]>> : iv \in Hits(g[i][2], time)} :
             i \in 1..Len(g)}

\* The list l holds the elements of the set S, each once.
Lists(l, S) == Len(l) = Cardinality(S) /\ {l[i] : i \in 1..Len(l)} = S

\* The keys of the registry m whose Calendar has a hit at time.
KeysWithHits(m, time) ==
    {m.cals[i][1] : i \in {j \in 1..Len(m.cals) :
                             GroupHits(m.objs[m.cals[j][2]], time) # {}}}

\* C17: get_slots_at(time, key) with a key returns {key: hits} when the
\* calendar exists and has an interval containing time, and an empty mapping
\* otherwise; without a key it returns exactly the calendars with a hit, each
\* mapped to its hits; no value of the mapping is an empty list.
C17_ManagerGetSlotsAt ==
    mlast.op = "get_slots_at" =>
        LET pre == mlast.pre
            time == mlast.start
            ret == mlast.ret
        IN  /\ \A i \in 1..Len(ret) : ret[i][2] # <<>>
            /\ \A i, j \in 1..Len(ret) : ret[i][1] = ret[j][1] => i = j
            /\ \A i \in 1..Len(ret) :
                /\ dict_has(pre.cals, ret[i][1])
                /\ Lists(ret[i][2], GroupHits(mgr_calendar(pre, ret[i][1]), time))
            /\ IF mlast.key # NoneKey
               THEN {ret[i][1] : i \in 1..Len(ret)}
                        = KeysWithHits(pre, time) \cap {mlast.key}
               ELSE {ret[i][1] : i \in 1..Len(ret)} = KeysWithHits(pre, time)

\* get_slots_at without a key in a registry of two calendars of which one has
\* an interval containing time.
C17_Witness ==
    /\ mlast.op = "get_slots_at"
    /\ mlast.key = NoneKey
    /\ Len(mlast.pre.cals) = 2
    /\ Len(mlast.pre.objs) = 2
    /\ Len(mlast.ret) = 1

\* The place of the resource in the Calendar g: the order of insertion.
ResourceIndex(g, resource_id) == CHOOSE i \in 1..Len(g) : g[i][1] = resource_id

\* C18: Calendar.get_slots_at(time) returns one (resource_id, start, end,
\* data) for each resource whose store has an interval with
\* start <= time < end and nothing for the other resources, in the order in
\* which the resources were added to the Calendar, whatever the starts are.
C18_CalendarGetSlotsAt ==
    mlast.op = "cal.get_slots_at" =>
        LET g == mgr_calendar(mlast.pre, mlast.key)
            time == mlast.start
            ret == mlast.ret
        IN  /\ Lists(ret, GroupHits(g, time))
            /\ {ret[i][1] : i \in 1..Len(ret)}
                  = {g[i][1] : i \in {j \in 1..Len(g) : Hits(g[j][2], time) # {}}}
            /\ \A i, j \in 1..Len(ret) :
                i < j => ResourceIndex(g, ret[i][1]) < ResourceIndex(g, ret[j][1])

\* Two resources have a hit and the resource added first holds the interval
\* that starts later.
C18_Witness ==
    /\ mlast.op = "cal.get_slots_at"
    /\ Len(mlast.ret) = 2
    /\ mlast.ret[1][2] > mlast.ret[2][2]

\* The pairs of different keys of the registry m that hold the same Calendar
\* object.
Shared(m) ==
    {<<m.cals[i][1], m.cals[j][1]>> :
        <<i, j>> \in {p \in (1..Len(m.cals)) \X (1..Len(m.cals)) :
                        p[1] # p[2] /\ m.cals[p[1]][2] = m.cals[p[2]][2]}}

\* The keys of the registry m other than key.
OtherKeys(m, key) == {m.cals[i][1] : i \in 1..Len(m.cals)} \ {key}

AddOps == {"add_slot", "add_slot_with_shift"}

\* C19 as stated: whatever the calls were, add_calendar with a Calendar of the
\* caller and construction from a mapping included, no Calendar is held under
\* two keys, and an add_slot addressed to one key leaves the intervals under
\* every other key as they were.
C19_NoGroupUnderTwoKeys ==
    /\ Shared(mgr) = {}
    /\ mlast.op \in AddOps =>
        \A other \in OtherKeys(mlast.pre, mlast.key) :
            mgr_calendar(mgr, other) = mgr_calendar(mlast.pre, other)

\* The caller passed add_calendar a Calendar the registry holds under a key.
HeldGiven ==
    /\ mlast.op = "add_calendar"
    /\ mlast.arg.kind = "held"
    /\ dict_has(mlast.pre.cals, mlast.arg.key)

\* C19, amended: the registry stores the Calendar it is given, not a copy.
\* Two keys hold the same Calendar only where the caller bound it so, with
\* add_calendar(key, get_calendar(other)) or in the mapping it constructed the
\* registry from; no other call makes two keys share, and a Calendar the
\* registry creates itself is under one key.  An add_slot, add_slot_with_shift
\* or add_resource_to_calendar addressed to a key leaves every key that does
\* not share its Calendar as it was, and shows under every key that does.
C19_SharingOnlyByCaller ==
    mlast.op # "idle" =>
        LET pre == mlast.pre
        IN  /\ ~HeldGiven => Shared(mgr) \subseteq Shared(pre)
            /\ (HeldGiven /\ mlast.arg.key # mlast.key) =>
                  /\ <<mlast.key, mlast.arg.key>> \in Shared(mgr)
                  /\ Shared(mgr) \subseteq
                        Shared(pre) \cup
                        {p \in CalendarKeys \X CalendarKeys : mlast.key \in {p[1], p[2]}}
            /\ (mlast.op = "add_calendar" /\ mlast.arg.kind # "held") =>
                  \A other \in OtherKeys(mgr, mlast.key) :
                      <<mlast.key, other>> \notin Shared(mgr)
            /\ mlast.op \in WriteOps =>
                  \A other \in OtherKeys(pre, mlast.key) :
                      IF <<mlast.key, other>> \in Shared(mgr)
                      THEN mgr_calendar(mgr, other) = mgr_calendar(mgr, mlast.key)
                      ELSE mgr_calendar(mgr, other) = mgr_calendar(pre, other)
            /\ (mlast.op \in WriteOps /\ ~dict_has(pre.cals, mlast.key)) =>
                  \A other \in OtherKeys(mgr, mlast.key) :
                      <<mlast.key, other>> \notin Shared(mgr)

\* An add_slot addressed to one key stored an interval that shows under the
\* other key, bound to the same Calendar by add_calendar.
C19_Witness ==
    /\ mlast.op = "add_slot"
    /\ ~mlast.raised
    /\ mlast.ret = TRUE
    /\ \E other \in OtherKeys(mlast.pre, mlast.key) :
        /\ <<mlast.key, other>> \in Shared(mgr)
        /\ mgr_calendar(mgr, other) # mgr_calendar(mlast.pre, other)

StoreOrEmpty(m, key, resource_id) ==
    IF dict_has(m.cals, key)
    THEN IF dict_has(mgr_calendar(m, key), resource_id)
         THEN mgr_store(m, key, resource_id) ELSE <<>>
    ELSE <<>>

\* C21: the resources of a Calendar are independent.  add_slot and
\* add_slot_with_shift on resource r are decided by r's store alone (stored
\* exactly when the range meets no interval of r, shifted to the smallest
\* free start of r) and change r's store alone: the stores of the other
\* resources of the Calendar are as they were.
C21_ResourcesIndependent ==
    (mlast.op \in AddOps /\ ~mlast.raised) =>
        LET pre == mlast.pre
            s == StoreOrEmpty(pre, mlast.key, mlast.resource)
            d == mlast.end - mlast.start
        IN  /\ mlast.op = "add_slot" =>
                /\ mlast.ret = ScanFree(s, mlast.start, mlast.end)
                /\ Intervals(mgr_store(mgr, mlast.key, mlast.resource))
                      = Intervals(s) \cup
                        (IF mlast.ret THEN {<<mlast.start, mlast.end, "a">>} ELSE {})
            /\ mlast.op = "add_slot_with_shift" =>
                /\ mlast.ret = <<LeastFree(s, mlast.start, d),
                                 LeastFree(s, mlast.start, d) + d>>
                /\ Intervals(mgr_store(mgr, mlast.key, mlast.resource))
                      = Intervals(s) \cup {<<mlast.ret[1], mlast.ret[2], "a">>}
            /\ \A rid \in Resources \ {mlast.resource} :
                /\ StoreOrEmpty(mgr, mlast.key, rid) = StoreOrEmpty(pre, mlast.key, rid)
                /\ dict_has(mgr_calendar(mgr, mlast.key), rid)
                      <=> (/\ dict_has(pre.cals, mlast.key)
                           /\ dict_has(mgr_calendar(pre, mlast.key), rid))

\* add_slot stores for one resource an interval that another resource of the
\* same Calendar already holds.
C21_Witness ==
    /\ mlast.op = "add_slot"
    /\ ~mlast.raised
    /\ mlast.ret = TRUE
    /\ dict_has(mlast.pre.cals, mlast.key)
    /\ \E rid \in Resources \ {mlast.resource} :
        <<mlast.start, mlast.end, "a">>
            \in Intervals(StoreOrEmpty(mlast.pre, mlast.key, rid))

\* The ranges [a, b) with a < b of the times of the requests.
AllRanges == {r \in Times \X Times : r[1] < r[2]}

\* The sets of ranges of which no two overlap: the contents a store can have.
FreeSets ==
    {S \in SUBSET AllRanges :
        \A x \in S, y \in S : x # y => (x[2] <= y[1] \/ y[2] <= x[1])}

\* The store that holds the ranges of S: the SortedDict after one
\* self._slots[start] = (end, data) for each.
RECURSIVE StoreOf(_)
StoreOf(S) ==
    IF S = {} THEN <<>>
    ELSE LET x == CHOOSE y \in S : TRUE
         IN  setitem(StoreOf(S \ {x}), x[1], <<x[2], "a">>)

\* C22 as stated: a configuration exists, a store that add_slot calls can
\* build on the present one (on the empty store: any store without overlaps)
\* and a request with start < end, for which add_slot_with_shift returns a
\* start larger than the smallest start t >= the requested one at which the
\* request overlaps nothing.
C22_NonMinimalJumpExists ==
    \E S \in FreeSets, r \in AllRanges :
        /\ {<<iv[1], iv[2]>> : iv \in Intervals(slots)} \subseteq S
        /\ add_slot_with_shift(StoreOf(S), r[1], r[2], "a").ret[1]
              > LeastFree(StoreOf(S), r[1], r[2] - r[1])

\* Every move of the candidate of the search from t on, as long as the loop
\* has not returned (at most fuel moves), passes only starts at which the
\* request overlaps a stored interval.
RECURSIVE JumpsSkipNoFree(_, _, _, _)
JumpsSkipNoFree(s, t, d, fuel) ==
    LET r == find_step(s, t, d)
    IN  IF r.done \/ fuel = 0 THEN TRUE
        ELSE /\ \A u \in t..(r.time - 1) : ~ScanFree(s, u, u + d)
             /\ JumpsSkipNoFree(s, r.time, d, fuel - 1)

\* C22, amended: moving the candidate to the end of the blocking interval is
\* never a larger-than-minimal jump.  In every reachable store and for every
\* request with start < end, each move of the candidate passes only starts at
\* which the request would overlap a stored interval, so the start returned
\* is the smallest conflict-free one.
C22_JumpsAreMinimal ==
    /\ last.op = "idle" =>
        \A r \in AllRanges :
            JumpsSkipNoFree(slots, r[1], r[2] - r[1], Len(slots) + 1)
    /\ ShiftCall =>
        \A u \in last.start..(last.ret[1] - 1) :
            ~ScanFree(last.pre, u, u + (last.end - last.start))

\* A shift whose candidate was moved to the end of the next blocking interval,
\* an interval that starts after the requested start, and was placed there.
C22_Witness ==
    /\ ShiftCall
    /\ find_step(last.pre, last.start, last.end - last.start).branch = "next"
    /\ \E iv \in Intervals(last.pre) :
        /\ last.start < iv[1]
        /\ iv[2] = last.ret[1]

\* The stored interval with the greatest start <= t extends past t.
PrevCovers(s, t) ==
    \E p \in Intervals(s) :
        /\ p[1] <= t
        /\ \A q \in Intervals(s) : q[1] <= t => q[1] <= p[1]
        /\ p[2] > t

\* The stored intervals with the smallest start >= t (one or none).
NextFrom(s, t) ==
    {n \in Intervals(s) :
        n[1] >= t /\ \A q \in Intervals(s) : q[1] >= t => n[1] <= q[1]}

\* C23: in every reachable store, when the candidate t conflicts and the
\* stored interval with the greatest start <= t does not extend past t or
\* does not exist, the stored interval N with the smallest start >= t exists
\* and has t < N.start < t + duration, and the loop continues at N.end; the
\* fallback branch, which returns t unchecked, is never taken.
C23_FallbackUnreachable ==
    last.op = "idle" =>
        \A t \in StoredTimes, d \in 1..MaxTime :
            LET r == find_step(slots, t, d)
            IN  /\ r.branch # "fallback"
                /\ (~ScanFree(slots, t, t + d) /\ ~PrevCovers(slots, t)) =>
                      /\ r.branch = "next"
                      /\ \E n \in NextFrom(slots, t) :
                            /\ t < n[1]
                            /\ n[1] < t + d
                            /\ r.time = n[2]

\* A shift whose requested start conflicts while the interval before it ends
\* at or before the start: the search goes on from the next interval.
C23_Witness ==
    /\ ShiftCall
    /\ ~ScanFree(last.pre, last.start, last.end)
    /\ ~PrevCovers(last.pre, last.start)
    /\ \E p \in Intervals(last.pre) : p[2] <= last.start
    /\ last.ret[1] > last.start

\* C24: add_slot_with_shift returns the requested start exactly when the
\* requested [start, end) overlaps no stored interval, and the call then
\* leaves the store a successful add_slot leaves; otherwise the returned start
\* is the end of a stored interval, so the inserted interval abuts its left
\* neighbour.
C24_ShiftStaysOrAbuts ==
    ShiftCall =>
        LET free == ScanFree(last.pre, last.start, last.end)
            added == add_slot(last.pre, last.start, last.end, last.data)
        IN  /\ (last.ret[1] = last.start) <=> free
            /\ free => (added.ret = TRUE /\ slots = added.slots)
            /\ ~free =>
                /\ \E iv \in Intervals(last.pre) : iv[2] = last.ret[1]
                /\ left_slot(slots, last.ret[1]) # None
                /\ left_slot(slots, last.ret[1])[2] = last.ret[1]

\* A shift of a request whose start lies inside a stored interval and that is
\* placed between two stored intervals.
C24_Witness ==
    /\ ShiftCall
    /\ \E iv \in Intervals(last.pre) : iv[1] < last.start /\ last.start < iv[2]
    /\ \E iv \in Intervals(last.pre) : iv[1] >= last.ret[2]
    /\ last.ret[1] > last.start

\* C25: for every value k that is a calendar key of the registry, None
\* included, get_slots_at(time, k) asks calendar k alone: the mapping it
\* returns has no key other than k.
C25_GetSlotsAtRestrictsToKey ==
    (mlast.op = "get_slots_at" /\ dict_has(mlast.pre.cals, mlast.key)) =>
        \A i \in 1..Len(mlast.ret) : mlast.ret[i][1] = mlast.key

\* C25, amended: get_slots_at(time, k) asks calendar k alone for every key k
\* other than None.  None is the value of the omitted argument: with None
\* the call scans all the calendars, also when a calendar is registered under
\* None, and the mapping it returns has every key whose calendar has a hit.
C25_NoneScansAll ==
    mlast.op = "get_slots_at" =>
        LET keys == {mlast.ret[i][1] : i \in 1..Len(mlast.ret)}
        IN  /\ mlast.key # NoneKey => keys \subseteq {mlast.key}
            /\ mlast.key = NoneKey =>
                  \A k \in CalendarKeys :
                      k \in keys <=>
                          /\ dict_has(mlast.pre.cals, k)
                          /\ cal_get_slots_at(mgr_calendar(mlast.pre, k),
                                              mlast.start) # <<>>

\* get_slots_at(time, None) in a registry that has a calendar under None
\* returns the hits of the calendar under "k1".
C25_Witness ==
    /\ mlast.op = "get_slots_at"
    /\ mlast.key = NoneKey
    /\ dict_has(mlast.pre.cals, NoneKey)
    /\ \E i \in 1..Len(mlast.ret) : mlast.ret[i][1] = "k1"
    /\ Len(mlast.pre.objs) = 2

\* C26: the calendar and the resource are created before the range is
\* validated.  add_slot and add_slot_with_shift with start >= end raise, and
\* afterwards the addressed calendar and resource exist, with an empty store
\* when they were missing; no store has gained or lost an interval.
C26_CreatedBeforeValidation ==
    (mlast.op \in AddOps /\ mlast.start >= mlast.end) =>
        LET pre == mlast.pre
        IN  /\ mlast.raised
            /\ dict_keys(mgr.cals) = WithLast(dict_keys(pre.cals), mlast.key)
            /\ dict_has(mgr_calendar(mgr, mlast.key), mlast.resource)
            /\ \A key \in CalendarKeys, rid \in Resources :
                StoreOrEmpty(mgr, key, rid) = StoreOrEmpty(pre, key, rid)
            /\ TotalSlots(mgr) = TotalSlots(pre)

\* add_slot_with_shift with start >= end for a resource the calendar does not
\* have, in a registry that holds an interval: the resource is there, empty.
C26_Witness ==
    /\ mlast.op = "add_slot_with_shift"
    /\ mlast.raised
    /\ dict_has(mlast.pre.cals, mlast.key)
    /\ ~dict_has(mgr_calendar(mlast.pre, mlast.key), mlast.resource)
    /\ dict_has(mgr_calendar(mgr, mlast.key), mlast.resource)
    /\ mgr_store(mgr, mlast.key, mlast.resource) = <<>>
    /\ TotalSlots(mgr) > 0

\* The place of the first assignment with start >= end.
FirstInvalid(assignments) ==
    CHOOSE i \in 1..Len(assignments) :
        /\ assignments[i][3] >= assignments[i][4]
        /\ \A j \in 1..(i - 1) : assignments[j][3] < assignments[j][4]

\* C27: when an item of the list of a bulk call has start >= end the call
\* raises and returns no list; the registry is the one the single calls for
\* the items before it leave (nothing is rolled back), plus the calendar and
\* resource the failing item addresses, and no item after it is applied.
C27_BulkRaisesAtInvalidItem ==
    (mlast.op \in BulkOps /\ ~AllValid(mlast.arg)) =>
        LET shift == mlast.op = "bulk_assign_slots_with_shift"
            i == FirstInvalid(mlast.arg)
            before == AfterCalls(mlast.pre, mlast.arg, i - 1, shift)
            a == mlast.arg[i]
        IN  /\ mlast.raised
            /\ mlast.ret = None
            /\ \A key \in CalendarKeys, rid \in Resources :
                StoreOrEmpty(mgr, key, rid) = StoreOrEmpty(before, key, rid)
            /\ dict_keys(mgr.cals) = WithLast(dict_keys(before.cals), a[1])
            /\ dict_has(mgr_calendar(mgr, a[1]), a[2])

\* A bulk_assign_slots_with_shift whose first item was stored and whose second
\* item has start >= end.
C27_Witness ==
    /\ mlast.op = "bulk_assign_slots_with_shift"
    /\ mlast.raised
    /\ Len(mlast.arg) = 2
    /\ FirstInvalid(mlast.arg) = 2
    /\ TotalSlots(mgr) = TotalSlots(mlast.pre) + 1

\* C28: after any sequence of store operations every stored interval has
\* start < end; no call, add_slot_with_shift after shifting included, stores
\* an interval with start >= end.
C28_PositiveDuration ==
    /\ \A i \in 1..Len(slots) : slots[i][1] < slots[i][2][1]
    /\ (last.op \in {"add_slot", "add_slot_with_shift"}
          /\ last.start >= last.end) => slots = last.pre

\* A shift that moved the request and stored it, in a store of three
\* intervals.
C28_Witness ==
    /\ ShiftCall
    /\ last.ret[1] > last.start
    /\ Len(slots) = 3
    /\ <<last.ret[1], last.ret[2], last.data>> \in Intervals(slots)
    /\ last.ret[1] < last.ret[2]

\* The entries repeated right_slot calls visit from x on: right_slot(x), then
\* right_slot of the start of what was returned, until None (at most fuel
\* calls).
RECURSIVE Walk(_, _, _)
Walk(s, x, fuel) ==
    LET r == right_slot(s, x)
    IN  IF fuel = 0 THEN <<>>
        ELSE IF r = None THEN <<>>
        ELSE <<r>> \o Walk(s, r[1], fuel - 1)

\* C29: in every reachable store, for consecutive entries A, B of
\* get_all_slots(), right_slot(A.start) is B and left_slot(B.start) is A;
\* right_slot of the last start and left_slot of the first start are None;
\* repeated right_slot calls from below the first start visit the entries of
\* get_all_slots() in order.
C29_NavigationAgreesWithListing ==
    LET l == get_all_slots(slots)
        n == Len(l)
    IN  /\ \A i \in 1..(n - 1) :
            /\ right_slot(slots, l[i][1]) = l[i + 1]
            /\ left_slot(slots, l[i + 1][1]) = l[i]
        /\ n > 0 =>
            /\ right_slot(slots, l[n][1]) = None
            /\ left_slot(slots, l[1][1]) = None
        /\ Walk(slots, 0 - 1, n + 1) = l

\* right_slot of the start of the second of three stored intervals returned
\* the third.
C29_Witness ==
    /\ last.op = "right_slot"
    /\ Len(slots) = 3
    /\ last.start = slots[2][1]
    /\ last.ret = get_all_slots(slots)[3]

\* The instant a datetime denotes, in half-seconds since the epoch: its wall
\* clock less the offset of its own timezone, or of the calendar's default
\* timezone when it is naive.
InstantOf(dt) ==
    2 * (dt.sec - (IF dt.aware THEN dt.offset ELSE default_timezone)) + dt.half

\* The whole second an instant (not before the epoch) falls in.
SecondOf(dt) ==
    CHOOSE c \in 0..(MaxSecond + 1) :
        2 * c <= InstantOf(dt) /\ InstantOf(dt) < 2 * c + 2

\* The calls of the datetime layer that take a range.
DtAddOps == {"dt.add_slot", "dt.add_slot_with_shift"}

\* A datetime of the calendar's default timezone that denotes second c.
InDefaultZone(dt, c) ==
    /\ dt.aware
    /\ dt.offset = default_timezone
    /\ InstantOf(dt) = 2 * c

\* C30: every datetime is mapped to the coordinate of its instant (an aware one
\* by its own offset, a naive one by the default timezone), so that a request
\* with start before end is accepted or rejected, never refused, and is
\* rejected exactly when its instants [start, end) meet the instants of a
\* stored slot, whatever timezone each is written in.
C30_OverlappingInstantsConflict ==
    (last.op = "dt.add_slot" /\ InstantOf(last.start) < InstantOf(last.end)) =>
        /\ ~last.raised
        /\ last.ret =
            ~(\E iv \in Intervals(last.pre) :
                2 * iv[1] < InstantOf(last.end) /\ InstantOf(last.start) < 2 * iv[2])

\* What the code does instead: every datetime is mapped to the whole second
\* its instant falls in (int() of the timestamp); an aware datetime is read in
\* its own timezone and the default timezone is applied to naive ones only.
\* add_slot raises for a request whose
\* seconds are not in order, rejects it exactly when its seconds meet a stored
\* slot and else stores those seconds; requests on whole seconds are rejected
\* exactly when their instants meet a stored slot; remove_slot and get_slot_at
\* look up the second of their argument, add_slot_with_shift starts its search
\* there, and what comes back is written in the default timezone.
DtWholeSecondInstants ==
    /\ last.op \in DtAddOps =>
            last.raised = (SecondOf(last.start) >= SecondOf(last.end))
    /\ (last.op = "dt.add_slot" /\ ~last.raised) =>
        LET a == SecondOf(last.start)
            b == SecondOf(last.end)
        IN  /\ last.ret =
                    ~(\E iv \in Intervals(last.pre) : iv[1] < b /\ a < iv[2])
            /\ Intervals(slots) =
                    IF last.ret
                    THEN Intervals(last.pre) \cup {<<a, b, last.data>>}
                    ELSE Intervals(last.pre)
            /\ (last.start.half = 0 /\ last.end.half = 0) =>
                    last.ret =
                        ~(\E iv \in Intervals(last.pre) :
                            /\ 2 * iv[1] < InstantOf(last.end)
                            /\ InstantOf(last.start) < 2 * iv[2])
    /\ (last.op = "dt.add_slot_with_shift" /\ ~last.raised) =>
        LET a == SecondOf(last.start)
            b == SecondOf(last.end)
        IN  \E t \in a..DtHorizon :
                /\ t = LeastFree(last.pre, a, b - a)
                /\ InDefaultZone(last.ret[1], t)
                /\ InDefaultZone(last.ret[2], t + (b - a))
                /\ Intervals(slots) =
                        Intervals(last.pre) \cup {<<t, t + (b - a), last.data>>}
    /\ last.op = "dt.remove_slot" =>
        /\ ~last.raised
        /\ last.ret =
                (\E iv \in Intervals(last.pre) : iv[1] = SecondOf(last.start))
        /\ Intervals(slots) =
                {iv \in Intervals(last.pre) : iv[1] # SecondOf(last.start)}
    /\ last.op = "dt.get_slot_at" =>
        LET hits == {iv \in Intervals(last.pre) :
                        iv[1] <= SecondOf(last.start)
                            /\ SecondOf(last.start) < iv[2]}
        IN  IF hits = {} THEN last.ret = None
            ELSE \E iv \in hits :
                    /\ InDefaultZone(last.ret[1], iv[1])
                    /\ InDefaultZone(last.ret[2], iv[2])
                    /\ last.ret[3] = iv[3]

\* A request written in another timezone than the calendar's, from an aware
\* start to a naive end, was rejected for a slot stored earlier.
DtCrossZoneRejected ==
    /\ last.op = "dt.add_slot"
    /\ ~last.raised
    /\ last.ret = FALSE
    /\ last.start.aware
    /\ last.start.offset # default_timezone
    /\ ~last.end.aware
    /\ default_timezone # UTC

====
